---- MODULE Spec2Model ----
(***************************************************************************)
(* Marketplace catalog: the query-parameter validator                      *)
(* (src/src/lib/validations.ts) and the search service                     *)
(* (src/src/services/searchService.ts).                                    *)
(*                                                                         *)
(* Text is a sequence of one-character strings.  Numbers are fixed-point   *)
(* with one decimal digit: the number x is held as the integer 10 * x, so  *)
(* that 1.5 is 15 and "is an integer" is "is a multiple of 10".            *)
(* An optional value is <<>> when absent and <<v>> when present.           *)
(***************************************************************************)
EXTENDS Integers, Sequences, FiniteSets, TLC

VARIABLES
    form,        \* processSearchParams: shape of the argument ("record" or "urlsp")
    raw,         \* processSearchParams: key -> list of raw values of that key
    out,         \* processSearchParams: the SearchParams it returned
    ppc,         \* processSearchParams: "start" or "done"
    catalog,     \* the Product table
    params,      \* search(): the argument of the call
    pc,          \* search(): position in the handler
    validated,   \* search(): validatedParams
    products,    \* search(): result of executeProductSearch, once it resolved
    totalCount,  \* search(): result of getProductCount, once it resolved
    catFacets,   \* search(): result of getCategoryFacets, once it resolved
    locFacets,   \* search(): result of getLocationFacets, once it resolved
    priceRange,  \* search(): result of getPriceRange, once it resolved
    result,      \* search(): the SearchResult returned, <<>> before
    error,       \* search(): the error thrown, "" when none
    message,     \* search(): the message of the error thrown, <<>> when none
    reads,       \* search(): read -> "unissued", "pending", "resolved", "rejected"
    pgCall,      \* PaginationService: the call made, its arguments and its answer
    ftCall,      \* deep link: the filter state written, the URL and the state read back
    sqCall,      \* sanitizeSearchQuery: the call made, its argument and its answer
    uiCall,      \* filter handlers: the handler run, the URL it read and the URL it pushed
    urlParams,   \* the query parameters of the current /catalog URL (useSearchParams)
    pushed,      \* router: the URL of the router.push not yet navigated to, <<>> when none
    sidebar,     \* FilterSidebar: props, local price fields, what is rendered
    searchBar,   \* SearchBar: searchQuery, isSearching and its timers
    pager        \* Pagination: totalPages, isNavigating and its timers

paramVars == <<form, raw, out, ppc>>
searchVars == <<catalog, params, pc, validated, products, totalCount,
                catFacets, locFacets, priceRange, result, error, message,
                reads>>
pageVars == <<pgCall>>
filterVars == <<ftCall>>
sanitizeVars == <<sqCall>>
uiVars == <<uiCall, urlParams, pushed, sidebar, searchBar, pager>>
vars == <<form, raw, out, ppc, catalog, params, pc, validated, products,
          totalCount, catFacets, locFacets, priceRange, result, error,
          message, reads, pgCall, ftCall, sqCall, uiCall, urlParams, pushed,
          sidebar, searchBar, pager>>

\* what each part of the program leaves alone
besideParams == <<searchVars, pageVars, filterVars, sanitizeVars, uiVars>>
besideSearch == <<paramVars, pageVars, filterVars, sanitizeVars, uiVars>>
besidePagination == <<paramVars, searchVars, filterVars, sanitizeVars, uiVars>>
besideFilters == <<paramVars, searchVars, pageVars, sanitizeVars, uiVars>>
besideSanitize == <<paramVars, searchVars, pageVars, filterVars, uiVars>>
besideUi == <<paramVars, searchVars, pageVars, filterVars, sanitizeVars>>

----------------------------------------------------------------------------
(* Optional values *)

None == <<>>

Some(v) == <<v>>

IsSome(o) == o # <<>>

Get(o) == o[1]

----------------------------------------------------------------------------
(* Program constants *)

MaxQueryLen == 200

MaxLabelLen == 100

MaxPrice == 1000000

MaxPage == 1000

MaxLimit == 100

DefaultPage == 1

DefaultLimit == 20

SanitizeDefaultMax == 1000

----------------------------------------------------------------------------
(* Text *)

Rep(c, n) == [i \in 1..n |-> c]

IsSpace(c) == c = " "

TrimLeft(s) ==
    IF \A i \in 1..Len(s) : IsSpace(s[i]) THEN <<>>
    ELSE LET first == CHOOSE i \in 1..Len(s) :
                          ~IsSpace(s[i]) /\ \A j \in 1..(i - 1) : IsSpace(s[j])
         IN  SubSeq(s, first, Len(s))

TrimRight(s) ==
    IF \A i \in 1..Len(s) : IsSpace(s[i]) THEN <<>>
    ELSE LET last == CHOOSE i \in 1..Len(s) :
                         ~IsSpace(s[i]) /\ \A j \in (i + 1)..Len(s) : IsSpace(s[j])
         IN  SubSeq(s, 1, last)

\* String.prototype.trim
Trim(s) == TrimRight(TrimLeft(s))

\* String.prototype.slice(0, n)
Slice(s, n) == IF Len(s) <= n THEN s ELSE SubSeq(s, 1, n)

\* one character of toLowerCase, as the insensitive comparison folds it
LowerChar(c) ==
    CASE c = "A" -> "a"
      [] c = "B" -> "b"
      [] c = "X" -> "x"
      [] c = "Y" -> "y"
      [] c = "N" -> "n"
      [] c = "M" -> "m"
      [] OTHER -> c

Lower(s) == [i \in 1..Len(s) |-> LowerChar(s[i])]

\* needle occurs in hay as a contiguous run (the empty needle occurs everywhere)
Contains(hay, needle) ==
    \E i \in 0..(Len(hay) - Len(needle)) :
        SubSeq(hay, i + 1, i + Len(needle)) = needle

\* sanitizeString(input, maxLength)
sanitizeString(input, maxLength) == Slice(Trim(input), maxLength)

HarmfulChars == {"<", ">", "\"", "'", "&"}

\* String.prototype.replace(/[<>"'&]/g, '')
StripHarmful(s) == SelectSeq(s, LAMBDA c : c \notin HarmfulChars)

\* sanitizeSearchQuery capping before it strips
sanitizeSearchQuery_CapFirst(query) == StripHarmful(Slice(Trim(query), MaxQueryLen))

\* sanitizeSearchQuery(query): trim, then strip, then cap
sanitizeSearchQuery(query) == Slice(StripHarmful(Trim(query)), MaxQueryLen)

----------------------------------------------------------------------------
(* decodeURIComponent, on the escapes the model's alphabet holds.  A "%"   *)
(* that does not start one of these escapes is malformed (URIError).       *)

EscapeChar(h1, h2) ==
    CASE h1 = "2" /\ h2 = "0" -> " "
      [] h1 = "4" /\ h2 = "1" -> "A"
      [] h1 = "2" /\ h2 = "5" -> "%"
      [] h1 = "3" /\ h2 = "C" -> "<"
      [] OTHER -> ""

RECURSIVE DecodeOK(_)
DecodeOK(s) ==
    IF \A i \in 1..Len(s) : s[i] # "%" THEN TRUE
    ELSE IF Head(s) = "%"
         THEN /\ Len(s) >= 3
              /\ EscapeChar(s[2], s[3]) # ""
              /\ DecodeOK(SubSeq(s, 4, Len(s)))
         ELSE DecodeOK(Tail(s))

RECURSIVE DecodeVal(_)
DecodeVal(s) ==
    IF \A i \in 1..Len(s) : s[i] # "%" THEN s
    ELSE IF Head(s) = "%"
         THEN <<EscapeChar(s[2], s[3])>> \o DecodeVal(SubSeq(s, 4, Len(s)))
         ELSE <<Head(s)>> \o DecodeVal(Tail(s))

\* safeDecodeURIComponent(str): the original string when decoding throws
safeDecodeURIComponent(str) == IF DecodeOK(str) THEN DecodeVal(str) ELSE str

----------------------------------------------------------------------------
(* Number(string), for signed decimal numerals with at most one digit      *)
(* after the point; the empty (or blank) string is 0; anything else NaN.   *)

Digits == {"0", "1", "2", "3", "4", "5", "6", "7", "8", "9"}

DigitVal(c) ==
    CASE c = "0" -> 0 [] c = "1" -> 1 [] c = "2" -> 2 [] c = "3" -> 3
      [] c = "4" -> 4 [] c = "5" -> 5 [] c = "6" -> 6 [] c = "7" -> 7
      [] c = "8" -> 8 [] c = "9" -> 9 [] OTHER -> 0

AllDigits(s) == \A i \in 1..Len(s) : s[i] \in Digits

RECURSIVE DigitsVal(_)
DigitsVal(s) ==
    IF s = <<>> THEN 0
    ELSE 10 * DigitsVal(SubSeq(s, 1, Len(s) - 1)) + DigitVal(s[Len(s)])

PointAt(s) == IF \E i \in 1..Len(s) : s[i] = "."
              THEN CHOOSE i \in 1..Len(s) : s[i] = "." /\ \A j \in 1..(i - 1) : s[j] # "."
              ELSE 0

NaN == [nan |-> TRUE, v |-> 0]

Num(n) == [nan |-> FALSE, v |-> n]

\* an unsigned numeral: digits, optionally a point and at most one digit
Unsigned(s) ==
    LET p == PointAt(s)
        ip == IF p = 0 THEN s ELSE SubSeq(s, 1, p - 1)
        fp == IF p = 0 THEN <<>> ELSE SubSeq(s, p + 1, Len(s))
    IN  IF /\ AllDigits(ip) /\ AllDigits(fp)
           /\ Len(ip) + Len(fp) >= 1
           /\ Len(fp) <= 1
        THEN Num(10 * DigitsVal(ip) + DigitsVal(fp))
        ELSE NaN

ToNumber(str) ==
    LET s == Trim(str)
    IN  IF s = <<>> THEN Num(0)
        ELSE IF Head(s) = "-"
             THEN LET u == Unsigned(Tail(s))
                  IN IF u.nan THEN NaN ELSE Num(0 - u.v)
             ELSE IF Head(s) = "+" THEN Unsigned(Tail(s))
             ELSE Unsigned(s)

\* the whole number n in the fixed-point representation
Whole(n) == 10 * n

IsInteger(x) == x % 10 = 0

----------------------------------------------------------------------------
(* SearchParamsSchema.  The object handed to the schema holds, per key, an *)
(* optional value; text keys hold text, numeric keys hold what             *)
(* z.coerce.number() made of the value (Number(value)).                    *)

TextKeys == {"q", "category", "location"}

NumKeys == {"min", "max", "page", "limit"}

Keys == TextKeys \cup NumKeys

\* z.string().trim().max(maxLen).optional()
ZString(o, maxLen) ==
    IF ~IsSome(o) THEN [ok |-> TRUE, val |-> None]
    ELSE LET t == Trim(Get(o))
         IN  [ok |-> Len(t) <= maxLen, val |-> Some(t)]

\* z.coerce.number().min(lo).max(hi), on a value that is present
ZNumber(n, lo, hi) ==
    [ok |-> ~n.nan /\ n.v >= Whole(lo) /\ n.v <= Whole(hi), val |-> Some(n.v)]

\* z.coerce.number().min(lo).max(hi).optional()
ZOptionalNumber(o, lo, hi) ==
    IF ~IsSome(o) THEN [ok |-> TRUE, val |-> None] ELSE ZNumber(Get(o), lo, hi)

\* z.coerce.number().min(1).max(1000).default(1): an absent page becomes 1
ZPage(o) ==
    IF ~IsSome(o) THEN [ok |-> TRUE, val |-> Some(Whole(DefaultPage))]
    ELSE ZNumber(Get(o), 1, MaxPage)

\* z.coerce.number().min(1).max(100).default(20).optional(): the outer
\* optional() answers an absent limit itself, so the default never applies
ZLimit(o) ==
    IF ~IsSome(o) THEN [ok |-> TRUE, val |-> None]
    ELSE ZNumber(Get(o), 1, MaxLimit)

\* PriceOrderOK without the comparison: the refinement accepts any pair
PriceOrderOK_Unchecked(min, max) == TRUE

\* the refinement: min <= max when both are defined
PriceOrderOK(min, max) ==
    IF IsSome(min) /\ IsSome(max) THEN Get(min) <= Get(max) ELSE TRUE

\* SearchParamsSchema.safeParse(p)
SearchParamsSchema(p) ==
    LET q == ZString(p.q, MaxQueryLen)
        category == ZString(p.category, MaxLabelLen)
        min == ZOptionalNumber(p.min, 0, MaxPrice)
        max == ZOptionalNumber(p.max, 0, MaxPrice)
        location == ZString(p.location, MaxLabelLen)
        page == ZPage(p.page)
        limit == ZLimit(p.limit)
        fieldsOK == /\ q.ok /\ category.ok /\ min.ok /\ max.ok
                    /\ location.ok /\ page.ok /\ limit.ok
    IN  [success |-> fieldsOK /\ PriceOrderOK(min.val, max.val),
         data |-> [q |-> q.val, category |-> category.val,
                   location |-> location.val, min |-> min.val,
                   max |-> max.val, page |-> page.val, limit |-> limit.val]]

NoParams == [k \in Keys |-> None]

\* { page: 1, limit: 20 }
HardDefault ==
    [NoParams EXCEPT !.page = Some(Whole(DefaultPage)),
                     !.limit = Some(Whole(DefaultLimit))]

----------------------------------------------------------------------------
(* processSearchParams *)

\* the params object built from the argument.  A record holds a string or
\* an array per key: the first value counts and an empty one is skipped.
\* URLSearchParams is walked entry by entry: the last value of a key stays,
\* empty or not.
CollectParams(f, r) ==
    [k \in Keys |->
        IF r[k] = <<>> THEN None
        ELSE IF f = "record"
             THEN IF r[k][1] = <<>> THEN None
                  ELSE Some(sanitizeString(safeDecodeURIComponent(r[k][1]),
                                           SanitizeDefaultMax))
             ELSE Some(sanitizeString(safeDecodeURIComponent(r[k][Len(r[k])]),
                                      SanitizeDefaultMax))]

\* the params object as the schema's coercions see it
CoerceParams(p) ==
    [k \in Keys |->
        IF k \in TextKeys \/ ~IsSome(p[k]) THEN p[k]
        ELSE Some(ToNumber(Get(p[k])))]

\* "Keep valid string parameters": a non-empty string is kept as it is
SalvageText(o) == IF IsSome(o) /\ Get(o) # <<>> THEN o ELSE None

\* SalvageNumber clamping into [lo, hi] instead of dropping
SalvageNumber_Clamp(o, lo, hi) ==
    IF IsSome(o) /\ Get(o) # <<>> /\ ~ToNumber(Get(o)).nan
    THEN LET n == ToNumber(Get(o))
         IN  IF n.v < Whole(lo) THEN Some(Num(Whole(lo)))
             ELSE IF n.v > Whole(hi) THEN Some(Num(Whole(hi)))
             ELSE Some(n)
    ELSE None

\* "Keep valid numeric parameters": a non-empty numeral within [lo, hi]
SalvageNumber(o, lo, hi) ==
    IF IsSome(o) /\ Get(o) # <<>> /\ ~ToNumber(Get(o)).nan
    THEN LET n == ToNumber(Get(o))
         IN  IF n.v >= Whole(lo) /\ n.v <= Whole(hi) THEN Some(n) ELSE None
    ELSE None

\* the salvaged object; limit is not among the keys it copies
Salvage(p) ==
    [NoParams EXCEPT !.q = SalvageText(p.q),
                     !.category = SalvageText(p.category),
                     !.location = SalvageText(p.location),
                     !.min = SalvageNumber(p.min, 0, MaxPrice),
                     !.max = SalvageNumber(p.max, 0, MaxPrice),
                     !.page = SalvageNumber(p.page, 1, MaxPage)]

processSearchParams(f, r) ==
    LET p == CollectParams(f, r)
        strict == SearchParamsSchema(CoerceParams(p))
        salvageResult == SearchParamsSchema(Salvage(p))
    IN  IF strict.success THEN strict.data
        ELSE IF salvageResult.success THEN salvageResult.data
        ELSE HardDefault

----------------------------------------------------------------------------
(* The Product table.  A product's images column is left out: it is parsed *)
(* on read and takes no part in filtering, ordering or counting.           *)

MaxItems == 4

Cycle(seq, i) == seq[((i - 1) % Len(seq)) + 1]

\* the i-th product of the seed
MkItem(i) ==
    [id |-> i,
     title |-> Cycle(<< <<"a", "b">>, <<"B">>, <<"c">> >>, i),
     description |-> Cycle(<< <<"c", "a">>, <<"b", "<">> >>, i),
     price |-> Whole(Cycle(<<10, 20, 10, 30, 20>>, i)),
     category |-> Cycle(<< <<"x">>, <<"X">>, <<"y">>, <<"x">>, <<"y">> >>, i),
     location |-> Cycle(<< <<"n">>, <<"m">>, <<"n">> >>, i),
     createdAt |-> Cycle(<<2, 2, 1, 2, 1>>, i)]

ItemPool == {MkItem(i) : i \in 1..MaxItems}

----------------------------------------------------------------------------
(* SearchService *)

\* validateSearchParams(params), on a typed SearchParams: the schema's
\* coercion leaves a number as it is
validateSearchParams(p) ==
    SearchParamsSchema([k \in Keys |->
        IF k \in TextKeys \/ ~IsSome(p[k]) THEN p[k] ELSE Some(Num(Get(p[k])))])

\* validatedParams.q ? sanitizeSearchQuery(validatedParams.q) : ''
SanitizedQuery(v) ==
    IF IsSome(v.q) /\ Get(v.q) # <<>> THEN sanitizeSearchQuery(Get(v.q)) ELSE <<>>

\* a text filter of the request that is truthy (present and not empty)
Truthy(o) == IF IsSome(o) /\ Get(o) # <<>> THEN o ELSE None

\* buildPriceFilter(min, max): the gte / lte pair
buildPriceFilter(min, max) == [gte |-> min, lte |-> max]

NoPriceFilter == [gte |-> None, lte |-> None]

\* buildWhereClause(params, sanitizedQuery)
buildWhereClause(v, sanitizedQuery) ==
    [keyword |-> sanitizedQuery,
     category |-> Truthy(v.category),
     location |-> Truthy(v.location),
     price |-> [gte |-> v.min, lte |-> v.max]]

\* CategoryFacetWhere that keeps the category filter of the request
CategoryFacetWhere_KeepCategory(v, sanitizedQuery) ==
    [keyword |-> sanitizedQuery,
     category |-> Truthy(v.category),
     location |-> Truthy(v.location),
     price |-> [gte |-> v.min, lte |-> v.max]]

\* the where clauses of generateFacets: each leaves its own dimension out
CategoryFacetWhere(v, sanitizedQuery) ==
    [keyword |-> sanitizedQuery,
     category |-> None,
     location |-> Truthy(v.location),
     price |-> buildPriceFilter(v.min, v.max)]

\* LocationFacetWhere without the price filter
LocationFacetWhere_NoPrice(v, sanitizedQuery) ==
    [keyword |-> sanitizedQuery,
     category |-> Truthy(v.category),
     location |-> None,
     price |-> NoPriceFilter]

LocationFacetWhere(v, sanitizedQuery) ==
    [keyword |-> sanitizedQuery,
     category |-> Truthy(v.category),
     location |-> None,
     price |-> buildPriceFilter(v.min, v.max)]

PriceRangeWhere_NoCategory(v, sanitizedQuery) ==
    [keyword |-> sanitizedQuery,
     category |-> None,
     location |-> Truthy(v.location),
     price |-> NoPriceFilter]

PriceRangeWhere(v, sanitizedQuery) ==
    [keyword |-> sanitizedQuery,
     category |-> Truthy(v.category),
     location |-> Truthy(v.location),
     price |-> NoPriceFilter]

\* { contains: needle, mode: 'insensitive' }
ContainsInsensitive(field, needle) == Contains(Lower(field), Lower(needle))

\* { equals: value, mode: 'insensitive' }
EqualsInsensitive(field, value) == Lower(field) = Lower(value)

\* PriceWithin with gte read as gt: the lower bound is exclusive
PriceWithin_Exclusive(price, f) ==
    /\ (IsSome(f.gte) => price > Get(f.gte))
    /\ (IsSome(f.lte) => price <= Get(f.lte))

\* { gte, lte } on the price column
PriceWithin(price, f) ==
    /\ (IsSome(f.gte) => price >= Get(f.gte))
    /\ (IsSome(f.lte) => price <= Get(f.lte))

\* a row satisfies a where clause
Matches(item, where) ==
    /\ (where.keyword # <<>> =>
           \/ ContainsInsensitive(item.title, where.keyword)
           \/ ContainsInsensitive(item.description, where.keyword))
    /\ (IsSome(where.category) => EqualsInsensitive(item.category, Get(where.category)))
    /\ (IsSome(where.location) => EqualsInsensitive(item.location, Get(where.location)))
    /\ PriceWithin(item.price, where.price)

Matching(cat, where) == {item \in cat : Matches(item, where)}

\* orderBy [{ createdAt: 'desc' }, { id: 'asc' }] with createdAt alone
ProductBefore_NoTieBreak(a, b) == a.createdAt > b.createdAt

\* orderBy [{ createdAt: 'desc' }, { id: 'asc' }]: a must come before b
ProductBefore(a, b) ==
    \/ a.createdAt > b.createdAt
    \/ (a.createdAt = b.createdAt /\ a.id < b.id)

\* every order of the rows S the store may answer under that orderBy
RECURSIVE ProductOrders(_)
ProductOrders(S) ==
    IF S = {} THEN {<<>>}
    ELSE UNION { {<<x>> \o rest : rest \in ProductOrders(S \ {x})} :
                 x \in {y \in S : \A z \in S : ~ProductBefore(z, y)} }

\* skip / take
SkipTake(seq, skip, take) ==
    SubSeq(seq, skip + 1, IF skip + take <= Len(seq) THEN skip + take ELSE Len(seq))

\* a number of the request as a count of rows or pages
Units(x) == x \div 10

\* validatedParams.page || 1, validatedParams.limit || 20
PageOf(v) == IF IsSome(v.page) /\ Get(v.page) # 0 THEN Units(Get(v.page)) ELSE DefaultPage

LimitOf(v) == IF IsSome(v.limit) /\ Get(v.limit) # 0 THEN Units(Get(v.limit)) ELSE DefaultLimit

\* SkipOf counting pages from 0
SkipOf_FromZero(v) == PageOf(v) * LimitOf(v)

\* const skip = (page - 1) * limit
SkipOf(v) == (PageOf(v) - 1) * LimitOf(v)

\* prisma.product.findMany({ where, skip, take, orderBy }): the answers possible
FindMany(cat, where, skip, take) ==
    {SkipTake(seq, skip, take) : seq \in ProductOrders(Matching(cat, where))}

\* prisma.product.count({ where })
Count(cat, where) == Cardinality(Matching(cat, where))

\* groupBy one column with _count: the groups, one per distinct value
Groups(cat, where, column) ==
    { [name |-> n, count |-> Cardinality({i \in Matching(cat, where) : i[column] = n})] :
        n \in {i[column] : i \in Matching(cat, where)} }

\* orderBy { _count: 'desc' }: every order of the groups the store may
\* answer; groups of equal count come in any order
RECURSIVE GroupOrders(_)
GroupOrders(G) ==
    IF G = {} THEN {<<>>}
    ELSE UNION { {<<g>> \o rest : rest \in GroupOrders(G \ {g})} :
                 g \in {h \in G : \A k \in G : k.count <= h.count} }

\* getCategoryFacets / getLocationFacets: the answers possible
GroupBy(cat, where, column) == GroupOrders(Groups(cat, where, column))

SetMin(S) == CHOOSE x \in S : \A y \in S : x <= y

SetMax(S) == CHOOSE x \in S : \A y \in S : x >= y

\* getPriceRange: _min / _max of price, null (and 0) read as 0
getPriceRange(cat, where) ==
    LET prices == {i.price : i \in Matching(cat, where)}
    IN  IF prices = {} THEN [min |-> 0, max |-> 0]
        ELSE [min |-> SetMin(prices), max |-> SetMax(prices)]

----------------------------------------------------------------------------
(* The requests processSearchParams is run on: per key, the list of raw    *)
(* values of that key in the query string (<<>>: the key is absent).       *)

QInputs ==
    { <<>>,
      << <<" ", "a", "<", " ">> >>,
      << Rep("a", MaxQueryLen) >>,
      << Rep("a", MaxQueryLen + 1) >>,
      << <<"b">>, <<"a">> >> }

CategoryInputs ==
    { <<>>,
      << <<"x">> >>,
      << Rep("x", MaxLabelLen + 1) >> }

LocationInputs ==
    { <<>>,
      << <<" ", "n", " ">> >>,
      << <<"%", "4", "1">> >> }

MinInputs ==
    { <<>>,
      << <<"0">> >>,
      << <<"1", "0">> >>,
      << <<"-", "1">> >>,
      << <<"1", "0", "0", "0", "0", "0", "1">> >> }

MaxInputs ==
    { <<>>,
      << <<>> >>,
      << <<"5">> >>,
      << <<"1", "0", "0", "0", "0", "0", "0">> >>,
      << <<"2", "0", "0", "0", "0", "0", "0">> >> }

PageInputs ==
    { <<>>,
      << <<"0">> >>,
      << <<"2">> >>,
      << <<"1", ".", "5">> >>,
      << <<"5", "0", "0", "0">> >>,
      << <<"a">> >> }

LimitInputs ==
    { <<>>,
      << <<"5", "0">> >>,
      << <<"5", "0", "0">> >> }

RawInputs ==
    { [q |-> q, category |-> c, location |-> l, min |-> mn, max |-> mx,
       page |-> pg, limit |-> lm] :
        q \in QInputs, c \in CategoryInputs, l \in LocationInputs,
        mn \in MinInputs, mx \in MaxInputs, pg \in PageInputs, lm \in LimitInputs }

----------------------------------------------------------------------------
(* The pagination service and the search service at rest *)

PaginationIdle == pgCall = None

FiltersIdle == ftCall = None

SanitizeIdle == sqCall = None

\* no component of the catalog page is mounted
Unmounted == [mounted |-> FALSE]

UiIdle ==
    /\ uiCall = None
    /\ urlParams = [k \in Keys |-> None]
    /\ pushed = None
    /\ sidebar = Unmounted
    /\ searchBar = Unmounted
    /\ pager = Unmounted

\* the five reads of one call, by the field of the SearchResult they fill
Reads == {"products", "totalCount", "categories", "locations", "priceRange"}

SearchIdle ==
    /\ catalog = {}
    /\ params = NoParams
    /\ pc = "idle"
    /\ validated = NoParams
    /\ products = None
    /\ totalCount = None
    /\ catFacets = None
    /\ locFacets = None
    /\ priceRange = None
    /\ result = None
    /\ error = ""
    /\ message = <<>>
    /\ reads = [r \in Reads |-> "unissued"]

----------------------------------------------------------------------------
(* processSearchParams as a state machine: one call per request *)

InitParams ==
    /\ form \in {"record", "urlsp"}
    /\ raw \in RawInputs
    /\ out = NoParams
    /\ ppc = "start"
    /\ SearchIdle
    /\ PaginationIdle
    /\ FiltersIdle
    /\ SanitizeIdle
    /\ UiIdle

ProcessSearchParams ==
    /\ ppc = "start"
    /\ out' = processSearchParams(form, raw)
    /\ ppc' = "done"
    /\ UNCHANGED <<form, raw>>
    /\ UNCHANGED besideParams

NextParams == ProcessSearchParams

SpecParams == InitParams /\ [][NextParams]_vars

----------------------------------------------------------------------------
(* search() as a state machine: one call over a fixed Product table.       *)
(* The handler validates, issues the page read and the count read          *)
(* together (Promise.all), then awaits the three facet reads one after     *)
(* the other.  Every read may be refused by the store; the handler then    *)
(* throws a SearchError and its locals are gone.                           *)

\* the arguments search() is called with
PricePairs ==
    { <<None, None>>, <<Some(Whole(10)), None>>, <<None, Some(Whole(10))>>,
      <<Some(Whole(10)), Some(Whole(10))>>, <<Some(Whole(20)), Some(Whole(10))>> }

SearchArgs ==
    { [q |-> q, category |-> c, location |-> l, min |-> pp[1], max |-> pp[2],
       page |-> pg, limit |-> lm] :
        q \in {None, Some(<<"<", "B">>)},
        c \in {None, Some(<<"x">>), Some(<<"Y">>)},
        l \in {None, Some(<<"n">>)},
        pp \in PricePairs,
        pg \in {Some(Whole(1)), Some(Whole(2)), Some(Whole(3))},
        lm \in {None, Some(Whole(2))} }

ParamsIdle ==
    /\ form = "record"
    /\ raw = NoParams
    /\ out = NoParams
    /\ ppc = "idle"

Init ==
    /\ catalog \in SUBSET ItemPool
    /\ params = NoParams
    /\ pc = "idle"
    /\ validated = NoParams
    /\ products = None
    /\ totalCount = None
    /\ catFacets = None
    /\ locFacets = None
    /\ priceRange = None
    /\ result = None
    /\ error = ""
    /\ message = <<>>
    /\ reads = [r \in Reads |-> "unissued"]
    /\ ParamsIdle
    /\ PaginationIdle
    /\ FiltersIdle
    /\ SanitizeIdle
    /\ UiIdle

\* the catch block of search(): whatever was thrown leaves as a SearchError
\* whose message is "Search operation failed: " followed by the message of
\* what was caught
Throw(caught) ==
    /\ pc' = "thrown"
    /\ error' = "SearchError"
    /\ message' = <<"Search operation failed">> \o caught
    /\ validated' = NoParams
    /\ products' = None
    /\ totalCount' = None
    /\ catFacets' = None
    /\ locFacets' = None
    /\ priceRange' = None
    /\ UNCHANGED <<catalog, result>>
    /\ UNCHANGED besideSearch

\* search(p) is called with arguments the schema accepts: the where clause
\* is built and the two reads of Promise.all are handed to the store
SearchCall ==
    /\ pc = "idle"
    /\ \E p \in SearchArgs :
          /\ validateSearchParams(p).success
          /\ params' = p
          /\ validated' = validateSearchParams(p).data
    /\ pc' = "page_and_count"
    /\ reads' = [reads EXCEPT !["products"] = "pending", !["totalCount"] = "pending"]
    /\ UNCHANGED <<catalog, products, totalCount, catFacets, locFacets,
                   priceRange, result, error, message>>
    /\ UNCHANGED besideSearch

\* search(p) is called with arguments the schema rejects: ValidationError
SearchCallInvalid ==
    /\ pc = "idle"
    /\ \E p \in SearchArgs :
          /\ ~validateSearchParams(p).success
          /\ params' = p
    /\ UNCHANGED reads
    /\ Throw(<<"Invalid search parameters">>)

Where == buildWhereClause(validated, SanitizedQuery(validated))

\* the message of the store when it refuses a read: the Prisma operation
StoreMessage(r) ==
    CASE r = "products"   -> "findMany"
      [] r = "totalCount" -> "count"
      [] r = "categories" -> "groupBy category"
      [] r = "locations"  -> "groupBy location"
      [] r = "priceRange" -> "aggregate"

\* the message of the DatabaseError a refused read is rethrown as
DatabaseErrorMessage(r) ==
    CASE r = "products"   -> <<"Failed to execute product search", StoreMessage(r)>>
      [] r = "totalCount" -> <<"Failed to get product count", StoreMessage(r)>>
      [] OTHER            -> <<"Failed to generate facets", StoreMessage(r)>>

\* Promise.all has resolved: generateFacets starts and hands its first read
\* to the store
AfterPageAndCount(r, both) ==
    IF both
    THEN [reads EXCEPT ![r] = "resolved", !["categories"] = "pending"]
    ELSE [reads EXCEPT ![r] = "resolved"]

\* executeProductSearch resolves
ExecuteProductSearch ==
    /\ pc = "page_and_count"
    /\ products = None
    /\ \E page \in FindMany(catalog, Where, SkipOf(validated), LimitOf(validated)) :
          products' = Some(page)
    /\ pc' = IF totalCount # None THEN "category_facets" ELSE pc
    /\ reads' = AfterPageAndCount("products", totalCount # None)
    /\ UNCHANGED <<catalog, params, validated, totalCount, catFacets, locFacets,
                   priceRange, result, error, message>>
    /\ UNCHANGED besideSearch

\* executeProductSearch rejects (DatabaseError)
ExecuteProductSearchFails ==
    /\ pc = "page_and_count"
    /\ products = None
    /\ reads' = [reads EXCEPT !["products"] = "rejected"]
    /\ UNCHANGED params
    /\ Throw(DatabaseErrorMessage("products"))

\* getProductCount resolves
GetProductCount ==
    /\ pc = "page_and_count"
    /\ totalCount = None
    /\ totalCount' = Some(Count(catalog, Where))
    /\ pc' = IF products # None THEN "category_facets" ELSE pc
    /\ reads' = AfterPageAndCount("totalCount", products # None)
    /\ UNCHANGED <<catalog, params, validated, products, catFacets, locFacets,
                   priceRange, result, error, message>>
    /\ UNCHANGED besideSearch

\* getProductCount rejects (DatabaseError)
GetProductCountFails ==
    /\ pc = "page_and_count"
    /\ totalCount = None
    /\ reads' = [reads EXCEPT !["totalCount"] = "rejected"]
    /\ UNCHANGED params
    /\ Throw(DatabaseErrorMessage("totalCount"))

\* generateFacets: getCategoryFacets resolves, getLocationFacets is called
GetCategoryFacets ==
    /\ pc = "category_facets"
    /\ \E f \in GroupBy(catalog, CategoryFacetWhere(validated, SanitizedQuery(validated)),
                        "category") :
          catFacets' = Some(f)
    /\ pc' = "location_facets"
    /\ reads' = [reads EXCEPT !["categories"] = "resolved", !["locations"] = "pending"]
    /\ UNCHANGED <<catalog, params, validated, products, totalCount, locFacets,
                   priceRange, result, error, message>>
    /\ UNCHANGED besideSearch

\* generateFacets: getLocationFacets resolves, getPriceRange is called
GetLocationFacets ==
    /\ pc = "location_facets"
    /\ \E f \in GroupBy(catalog, LocationFacetWhere(validated, SanitizedQuery(validated)),
                        "location") :
          locFacets' = Some(f)
    /\ pc' = "price_range"
    /\ reads' = [reads EXCEPT !["locations"] = "resolved", !["priceRange"] = "pending"]
    /\ UNCHANGED <<catalog, params, validated, products, totalCount, catFacets,
                   priceRange, result, error, message>>
    /\ UNCHANGED besideSearch

\* generateFacets: getPriceRange resolves
GetPriceRange ==
    /\ pc = "price_range"
    /\ priceRange' = Some(getPriceRange(catalog,
                              PriceRangeWhere(validated, SanitizedQuery(validated))))
    /\ pc' = "return"
    /\ reads' = [reads EXCEPT !["priceRange"] = "resolved"]
    /\ UNCHANGED <<catalog, params, validated, products, totalCount, catFacets,
                   locFacets, result, error, message>>
    /\ UNCHANGED besideSearch

\* the facet read generateFacets is awaiting at each position
AwaitedFacet ==
    CASE pc = "category_facets" -> "categories"
      [] pc = "location_facets" -> "locations"
      [] pc = "price_range"     -> "priceRange"

\* a facet read that is refused answers with empty facets instead of throwing
FacetReadFails_Degraded ==
    /\ pc \in {"category_facets", "location_facets", "price_range"}
    /\ reads' = [reads EXCEPT ![AwaitedFacet] = "rejected"]
    /\ result' = Some([products |-> Get(products),
                       totalCount |-> Get(totalCount),
                       facets |-> [categories |-> <<>>,
                                   locations |-> <<>>,
                                   priceRange |-> [min |-> 0, max |-> 0]]])
    /\ pc' = "returned"
    /\ UNCHANGED <<catalog, params, validated, products, totalCount, catFacets,
                   locFacets, priceRange, error, message>>
    /\ UNCHANGED besideSearch

\* generateFacets: the read it awaits rejects (DatabaseError)
FacetReadFails ==
    /\ pc \in {"category_facets", "location_facets", "price_range"}
    /\ reads' = [reads EXCEPT ![AwaitedFacet] = "rejected"]
    /\ UNCHANGED params
    /\ Throw(DatabaseErrorMessage(AwaitedFacet))

\* return { products, totalCount, facets }
SearchReturn ==
    /\ pc = "return"
    /\ result' = Some([products |-> Get(products),
                       totalCount |-> Get(totalCount),
                       facets |-> [categories |-> Get(catFacets),
                                   locations |-> Get(locFacets),
                                   priceRange |-> Get(priceRange)]])
    /\ pc' = "returned"
    /\ UNCHANGED <<catalog, params, validated, products, totalCount, catFacets,
                   locFacets, priceRange, error, message, reads>>
    /\ UNCHANGED besideSearch

Next ==
    \/ SearchCall
    \/ SearchCallInvalid
    \/ ExecuteProductSearch
    \/ ExecuteProductSearchFails
    \/ GetProductCount
    \/ GetProductCountFails
    \/ GetCategoryFacets
    \/ GetLocationFacets
    \/ GetPriceRange
    \/ FacetReadFails
    \/ SearchReturn

Spec == Init /\ [][Next]_vars

----------------------------------------------------------------------------
(* Claims about processSearchParams (specification SpecParams) *)

\* the params object of the request in hand, and what Number() makes of it
Collected == CollectParams(form, raw)

Coerced == CoerceParams(Collected)

TextMax(k) == IF k = "q" THEN MaxQueryLen ELSE MaxLabelLen

NumLo(k) == IF k \in {"min", "max"} THEN 0 ELSE 1

NumHi(k) == CASE k \in {"min", "max"} -> MaxPrice
              [] k = "page" -> MaxPage
              [] OTHER -> MaxLimit

\* key k holds a numeral
IsNumeral(k) == IsSome(Collected[k]) /\ ~Get(Coerced[k]).nan

NumeralOf(k) == Get(Coerced[k]).v

OutOfRange(k) ==
    IsNumeral(k) /\ (NumeralOf(k) < Whole(NumLo(k)) \/ NumeralOf(k) > Whole(NumHi(k)))

InRange(o, lo, hi) == IsSome(o) => Get(o) >= Whole(lo) /\ Get(o) <= Whole(hi)

TrimmedWithin(o, n) == IsSome(o) => Trim(Get(o)) = Get(o) /\ Len(Get(o)) <= n

\* C6: processSearchParams always returns a SearchParams that conforms to
\* the data model and is fully defaulted: page an integer in [1,1000] (1 when
\* absent), limit an integer in [1,100] (20 when absent), min and max in
\* [0, 1,000,000] with min <= max, text trimmed and within its length.
C6_FullyDefaulted ==
    ppc = "done" =>
        /\ IsSome(out.page) /\ IsInteger(Get(out.page)) /\ InRange(out.page, 1, MaxPage)
        /\ (raw.page = <<>> => out.page = Some(Whole(DefaultPage)))
        /\ IsSome(out.limit) /\ IsInteger(Get(out.limit)) /\ InRange(out.limit, 1, MaxLimit)
        /\ (raw.limit = <<>> => out.limit = Some(Whole(DefaultLimit)))
        /\ InRange(out.min, 0, MaxPrice) /\ InRange(out.max, 0, MaxPrice)
        /\ PriceOrderOK(out.min, out.max)
        /\ TrimmedWithin(out.q, MaxQueryLen)
        /\ TrimmedWithin(out.category, MaxLabelLen)
        /\ TrimmedWithin(out.location, MaxLabelLen)

\* min and max are both given as non-empty numerals and min > max
MinAboveMax ==
    /\ IsNumeral("min") /\ Get(Collected.min) # <<>>
    /\ IsNumeral("max") /\ Get(Collected.max) # <<>>
    /\ NumeralOf("min") > NumeralOf("max")

\* C7 as stated: whenever min and max are both present and min > max, the
\* result is exactly the default parameter set {page: 1, limit: 20}.
C7_Original == (ppc = "done" /\ MinAboveMax) => out = HardDefault

\* C7: whenever min and max are both present, both within [0, 1,000,000],
\* and min > max, the result is exactly the default parameter set
\* {page: 1, limit: 20}, whatever the other parameters were.
C7_MinAboveMaxRejected ==
    (ppc = "done" /\ MinAboveMax /\ ~OutOfRange("min") /\ ~OutOfRange("max"))
        => out = HardDefault

C7_Witness ==
    /\ ppc = "done" /\ MinAboveMax /\ ~OutOfRange("min") /\ ~OutOfRange("max")
    /\ IsSome(Collected.q) /\ IsSome(Collected.category) /\ IsSome(Collected.page)
    /\ out = HardDefault

\* the request with every text value trimmed and cut to its maximum length
TruncatedRaw ==
    [k \in Keys |->
        IF k \in TextKeys
        THEN [i \in 1..Len(raw[k]) |-> sanitizeString(raw[k][i], TextMax(k))]
        ELSE raw[k]]

OverLength(k) == IsSome(Collected[k]) /\ Len(Get(Collected[k])) > TextMax(k)

\* C8: an over-long q, category or location is trimmed, cut to its maximum
\* length and kept; it never causes an error nor the loss of that field or
\* of any other parameter: the result is that of the same request with the
\* text already cut.
C8_SilentTruncation ==
    (ppc = "done" /\ \E k \in TextKeys : OverLength(k)) =>
        /\ \A k \in TextKeys :
              OverLength(k) => out[k] = Some(sanitizeString(Get(Collected[k]), TextMax(k)))
        /\ out = processSearchParams(form, TruncatedRaw)

Clamp(v, lo, hi) == IF v < Whole(lo) THEN Whole(lo) ELSE IF v > Whole(hi) THEN Whole(hi) ELSE v

\* C9 as stated: a numeric parameter outside its range is clamped to the
\* nearest bound of that range.
C9_Original ==
    ppc = "done" =>
        \A k \in NumKeys :
            OutOfRange(k) => out[k] = Some(Clamp(NumeralOf(k), NumLo(k), NumHi(k)))

\* C9: a numeric parameter outside its range is discarded, not clamped: min
\* and max outside [0, 1,000,000] are absent from the result, page outside
\* [1,1000] yields page 1, limit outside [1,100] yields no limit or 20.
C9_OutOfRangeDiscarded ==
    ppc = "done" =>
        /\ \A k \in {"min", "max"} : OutOfRange(k) => out[k] = None
        /\ OutOfRange("page") => out.page = Some(Whole(DefaultPage))
        /\ OutOfRange("limit") => out.limit \in {None, Some(Whole(DefaultLimit))}

C9_Witness ==
    /\ ppc = "done"
    /\ OutOfRange("page") /\ NumeralOf("page") = Whole(5000)
    /\ OutOfRange("min") /\ OutOfRange("limit")
    /\ out.page = Some(Whole(DefaultPage)) /\ out.min = None /\ out.limit = None
    /\ IsSome(out.q)

\* key k, taken alone, passes the schema; and the value the schema gives it
ValidAlone(k) ==
    IF k \in TextKeys THEN ZString(Collected[k], TextMax(k)).ok
    ELSE ZNumber(Get(Coerced[k]), NumLo(k), NumHi(k)).ok

ValueAlone(k) ==
    IF k \in TextKeys THEN ZString(Collected[k], TextMax(k)).val
    ELSE ZNumber(Get(Coerced[k]), NumLo(k), NumHi(k)).val

\* C10: when strict validation fails, every field that passes validation on
\* its own is kept with its value and only the failing fields are dropped;
\* the hard default is returned only when the salvaged set fails validation.
C10_SalvageKeepsValid ==
    (ppc = "done" /\ ~SearchParamsSchema(Coerced).success) =>
        \/ /\ out = HardDefault
           /\ ~SearchParamsSchema(Salvage(Collected)).success
        \/ \A k \in Keys :
              IsSome(Collected[k]) =>
                 IF ValidAlone(k) THEN out[k] = ValueAlone(k)
                 ELSE out[k] = (IF k = "page" THEN Some(Whole(DefaultPage)) ELSE None)

----------------------------------------------------------------------------
(* Claims about search() (specification Spec) *)

Returned == pc = "returned"

\* the filters of the request p, read off the request itself
QueryOf(p) == IF IsSome(p.q) THEN sanitizeSearchQuery(Get(p.q)) ELSE <<>>

KeywordHolds(i, p) ==
    QueryOf(p) # <<>> =>
        \/ Contains(Lower(i.title), Lower(QueryOf(p)))
        \/ Contains(Lower(i.description), Lower(QueryOf(p)))

CategoryHolds(i, p) == IsSome(p.category) => Lower(i.category) = Lower(Get(p.category))

LocationHolds(i, p) == IsSome(p.location) => Lower(i.location) = Lower(Get(p.location))

PriceHolds(i, p) ==
    /\ (IsSome(p.min) => Get(p.min) <= i.price)
    /\ (IsSome(p.max) => i.price <= Get(p.max))

SatisfiesAll(i, p) ==
    KeywordHolds(i, p) /\ CategoryHolds(i, p) /\ LocationHolds(i, p) /\ PriceHolds(i, p)

NoFilter(p) ==
    /\ QueryOf(p) = <<>> /\ ~IsSome(p.category) /\ ~IsSome(p.location)
    /\ ~IsSome(p.min) /\ ~IsSome(p.max)

\* C1: totalCount is the number of items that satisfy every supplied filter
\* at once, and every returned item satisfies all of them; with no filter
\* every item matches, and with min = max only items of that price match.
C1_TotalCountMatchesFilters ==
    Returned =>
        LET r == Get(result)
        IN  /\ r.totalCount = Cardinality({i \in catalog : SatisfiesAll(i, params)})
            /\ \A n \in 1..Len(r.products) :
                  /\ r.products[n] \in catalog
                  /\ SatisfiesAll(r.products[n], params)
            /\ (NoFilter(params) => r.totalCount = Cardinality(catalog))
            /\ (IsSome(params.min) /\ params.min = params.max =>
                  /\ r.totalCount = Cardinality({i \in catalog :
                         /\ i.price = Get(params.min) /\ KeywordHolds(i, params)
                         /\ CategoryHolds(i, params) /\ LocationHolds(i, params)})
                  /\ \A n \in 1..Len(r.products) : r.products[n].price = Get(params.min))

C1_Witness ==
    /\ Returned
    /\ QueryOf(params) # <<>> /\ IsSome(params.category) /\ IsSome(params.location)
    /\ IsSome(params.min) /\ params.min = params.max
    /\ Get(result).totalCount >= 1
    /\ Len(Get(result).products) >= 1
    /\ \E i \in catalog : i.price = Get(params.min) /\ ~SatisfiesAll(i, params)
    /\ \E i \in catalog : i.price # Get(params.min)

\* what search(p) may answer for each facet over the table cat
ValidatedOf(p) == validateSearchParams(p).data

CategoryFacetsOf(cat, p) ==
    GroupBy(cat, CategoryFacetWhere(ValidatedOf(p), SanitizedQuery(ValidatedOf(p))), "category")

LocationFacetsOf(cat, p) ==
    GroupBy(cat, LocationFacetWhere(ValidatedOf(p), SanitizedQuery(ValidatedOf(p))), "location")

PriceRangeOf(cat, p) ==
    getPriceRange(cat, PriceRangeWhere(ValidatedOf(p), SanitizedQuery(ValidatedOf(p))))

TotalCountOf(cat, p) ==
    Count(cat, buildWhereClause(ValidatedOf(p), SanitizedQuery(ValidatedOf(p))))

\* the requests that differ from p in one dimension only
OtherCategory(p) ==
    {[p EXCEPT !.category = c] : c \in {None, Some(<<"x">>), Some(<<"X">>), Some(<<"y">>)}}

OtherLocation(p) ==
    {[p EXCEPT !.location = l] : l \in {None, Some(<<"n">>), Some(<<"M">>)}}

OtherPrice(p) ==
    {p2 \in {[p EXCEPT !.min = pp[1], !.max = pp[2]] : pp \in PricePairs} :
        validateSearchParams(p2).success}

\* the entries of a facet as a set
Entries(f) == {f[n] : n \in 1..Len(f)}

\* C2: each facet ignores the filter of its own dimension and honours the
\* others: the category facet returned is what the same search answers under
\* any other category filter, and counts the items that satisfy the keyword,
\* location and price filters; likewise the location facet; the price range
\* is that of the items satisfying keyword, category and location.
C2_FacetIgnoresOwnFilter ==
    Returned =>
        LET f == Get(result).facets
        IN  /\ \A p2 \in OtherCategory(params) : f.categories \in CategoryFacetsOf(catalog, p2)
            /\ \A p2 \in OtherLocation(params) : f.locations \in LocationFacetsOf(catalog, p2)
            /\ \A p2 \in OtherPrice(params) : f.priceRange = PriceRangeOf(catalog, p2)
            /\ Entries(f.categories) =
                  { [name |-> c,
                     count |-> Cardinality({i \in catalog :
                         /\ i.category = c /\ KeywordHolds(i, params)
                         /\ LocationHolds(i, params) /\ PriceHolds(i, params)})] :
                    c \in {i.category : i \in {j \in catalog :
                         /\ KeywordHolds(j, params) /\ LocationHolds(j, params)
                         /\ PriceHolds(j, params)}} }
            /\ Entries(f.locations) =
                  { [name |-> l,
                     count |-> Cardinality({i \in catalog :
                         /\ i.location = l /\ KeywordHolds(i, params)
                         /\ CategoryHolds(i, params) /\ PriceHolds(i, params)})] :
                    l \in {i.location : i \in {j \in catalog :
                         /\ KeywordHolds(j, params) /\ CategoryHolds(j, params)
                         /\ PriceHolds(j, params)}} }
            /\ \A i \in catalog :
                  KeywordHolds(i, params) /\ CategoryHolds(i, params) /\ LocationHolds(i, params)
                      => f.priceRange.min <= i.price /\ i.price <= f.priceRange.max

C2_Witness ==
    /\ Returned
    /\ IsSome(params.category) /\ IsSome(params.location) /\ IsSome(params.max)
    /\ \E e \in Entries(Get(result).facets.categories) :
          Lower(e.name) # Lower(Get(params.category))
    /\ \E i \in catalog : ~LocationHolds(i, params)
    /\ \E i \in catalog : ~PriceHolds(i, params) /\ CategoryHolds(i, params)
                          /\ LocationHolds(i, params) /\ KeywordHolds(i, params)
    /\ Get(result).facets.priceRange.max > Get(params.max)

\* C3: with no category filter, the count of each category facet entry X is
\* the totalCount of the same search with category X added; likewise for
\* each location facet entry with no location filter.
C3_FacetCountIsFilteredTotal ==
    Returned =>
        LET f == Get(result).facets
        IN  /\ ~IsSome(params.category) =>
                  \A e \in Entries(f.categories) :
                      e.count = TotalCountOf(catalog, [params EXCEPT !.category = Some(e.name)])
            /\ ~IsSome(params.location) =>
                  \A e \in Entries(f.locations) :
                      e.count = TotalCountOf(catalog, [params EXCEPT !.location = Some(e.name)])

\* the matches of the request in hand, and its pages
AllMatches == {i \in catalog : SatisfiesAll(i, params)}

CeilDiv(a, b) == (a + b - 1) \div b

LastPage == CeilDiv(Cardinality(AllMatches), LimitOf(validated))

PagesOf(k) == FindMany(catalog, Where, (k - 1) * LimitOf(validated), LimitOf(validated))

ThePage(k) == CHOOSE pg \in PagesOf(k) : TRUE

RECURSIVE ConcatPages(_)
ConcatPages(k) == IF k = 0 THEN <<>> ELSE ConcatPages(k - 1) \o ThePage(k)

NewestFirst(seq) ==
    \A a, b \in 1..Len(seq) :
        a < b => \/ seq[a].createdAt > seq[b].createdAt
                 \/ (seq[a].createdAt = seq[b].createdAt /\ seq[a].id < seq[b].id)

\* C4: for a fixed table, filters and limit, each page request has one
\* answer, and pages 1 .. ceil(totalCount / limit) put end to end hold every
\* match exactly once, newest first with ties by identifier ascending; the
\* page returned is the requested one of these.
C4_PagesPartitionMatches ==
    Returned =>
        LET all == ConcatPages(LastPage)
        IN  /\ \A k \in 1..LastPage : Cardinality(PagesOf(k)) = 1
            /\ Len(all) = Cardinality(AllMatches)
            /\ {all[n] : n \in 1..Len(all)} = AllMatches
            /\ NewestFirst(all)
            /\ PageOf(validated) <= LastPage =>
                  Get(result).products = ThePage(PageOf(validated))

C4_Witness ==
    /\ Returned
    /\ LimitOf(validated) = 2 /\ PageOf(validated) = 2 /\ LastPage = 2
    /\ Len(Get(result).products) >= 1
    /\ \E i, j \in AllMatches : i.id # j.id /\ i.createdAt = j.createdAt
    /\ \E i, j \in AllMatches : i.createdAt # j.createdAt

\* C5 as stated: at most limit items; length = totalCount only when
\* totalCount <= limit; and when totalCount > limit, length = limit on every
\* requested page other than the last page.
C5_Original ==
    Returned =>
        LET r == Get(result)
            n == Len(r.products)
        IN  /\ n <= LimitOf(validated)
            /\ (n = r.totalCount => r.totalCount <= LimitOf(validated))
            /\ (r.totalCount > LimitOf(validated) /\ PageOf(validated) # LastPage
                   => n = LimitOf(validated))

\* C5: at most limit items; length = totalCount only when totalCount <=
\* limit; and when totalCount > limit, length = limit on every requested page
\* before the last page, between 1 and limit on the last page, and 0 on a
\* page past the last.
C5_PageLength ==
    Returned =>
        LET r == Get(result)
            n == Len(r.products)
            last == CeilDiv(r.totalCount, LimitOf(validated))
        IN  /\ n <= LimitOf(validated)
            /\ (n = r.totalCount => r.totalCount <= LimitOf(validated))
            /\ (r.totalCount > LimitOf(validated) =>
                   /\ PageOf(validated) < last => n = LimitOf(validated)
                   /\ PageOf(validated) = last => n >= 1
                   /\ PageOf(validated) > last => n = 0)

C5_Witness ==
    /\ Returned
    /\ Get(result).totalCount > LimitOf(validated)
    /\ PageOf(validated) > CeilDiv(Get(result).totalCount, LimitOf(validated))
    /\ Get(result).products = <<>>

----------------------------------------------------------------------------
(* Claims about the reads of search() (specification Spec) *)

Rejected == {r \in Reads : reads[r] = "rejected"}

\* C11: when one of the five reads is refused, the call returns nothing and
\* throws a SearchError whose message carries the message of the refused
\* read; a result, when there is one, is composed of all five reads; and
\* the only error that leaves search() is a SearchError.
C11_AllOrSearchError ==
    /\ error \in {"", "SearchError"}
    /\ (pc = "thrown") = (error = "SearchError")
    /\ \A r \in Rejected :
          /\ pc = "thrown"
          /\ error = "SearchError"
          /\ result = None
          /\ message[Len(message)] = StoreMessage(r)
    /\ error = "SearchError" => result = None /\ Len(message) >= 2
    /\ result # None =>
          /\ Returned
          /\ \A r \in Reads : reads[r] = "resolved"
          /\ Get(result) = [products |-> Get(products),
                            totalCount |-> Get(totalCount),
                            facets |-> [categories |-> Get(catFacets),
                                        locations |-> Get(locFacets),
                                        priceRange |-> Get(priceRange)]]

C11_Witness ==
    /\ pc = "thrown"
    /\ reads["priceRange"] = "rejected"
    /\ \A r \in Reads \ {"priceRange"} : reads[r] = "resolved"
    /\ result = None

\* C12: the five reads of a call are handed to the store together: once
\* one of them has been issued all five have, so none waits for another
\* to complete.
C12_ReadsIssuedTogether ==
    (\E r \in Reads : reads[r] # "unissued") => (\A r \in Reads : reads[r] # "unissued")

\* the items that satisfy the filters of the request other than the one of
\* each dimension
BesidesCategory ==
    {i \in catalog : KeywordHolds(i, params) /\ LocationHolds(i, params) /\ PriceHolds(i, params)}

BesidesLocation ==
    {i \in catalog : KeywordHolds(i, params) /\ CategoryHolds(i, params) /\ PriceHolds(i, params)}

BesidesPrice ==
    {i \in catalog : KeywordHolds(i, params) /\ CategoryHolds(i, params) /\ LocationHolds(i, params)}

NoMatch == {i \in catalog : SatisfiesAll(i, params)} = {}

ZeroRange == [min |-> 0, max |-> 0]

\* C13 as stated: a search that matches no items returns totalCount 0, no
\* items, no category facet, no location facet and the price range 0..0.
C13_Original ==
    Returned /\ NoMatch =>
        LET r == Get(result)
        IN  /\ r.totalCount = 0
            /\ r.products = <<>>
            /\ r.facets.categories = <<>>
            /\ r.facets.locations = <<>>
            /\ r.facets.priceRange = ZeroRange

\* C13: a search that matches no items returns totalCount 0 and no items;
\* its category facet is empty when no item satisfies the keyword, location
\* and price filters, its location facet is empty when no item satisfies
\* the keyword, category and price filters, and its price range is 0..0
\* when no item satisfies the keyword, category and location filters; all
\* three hold when the table is empty or the keyword alone matches nothing.
C13_EmptyResult ==
    Returned /\ NoMatch =>
        LET r == Get(result)
        IN  /\ r.totalCount = 0
            /\ r.products = <<>>
            /\ (BesidesCategory = {}) = (r.facets.categories = <<>>)
            /\ (BesidesLocation = {}) = (r.facets.locations = <<>>)
            /\ BesidesPrice = {} => r.facets.priceRange = ZeroRange
            /\ r.facets.priceRange.min \in Nat /\ r.facets.priceRange.max \in Nat
            /\ (catalog = {} \/ \A i \in catalog : ~KeywordHolds(i, params)) =>
                  /\ r.facets.categories = <<>>
                  /\ r.facets.locations = <<>>
                  /\ r.facets.priceRange = ZeroRange

C13_Witness ==
    /\ Returned /\ NoMatch
    /\ catalog # {}
    /\ IsSome(params.category) /\ IsSome(params.location)
    /\ Get(result).facets.categories = <<>>
    /\ Get(result).facets.locations # <<>>
    /\ BesidesPrice = {}
    /\ Get(result).facets.priceRange = ZeroRange

----------------------------------------------------------------------------
(* PaginationService (src/src/services/paginationService.ts).  Counts,     *)
(* pages and indexes are whole numbers and are held as such.  An entry of  *)
(* a page list is <<n>> for page n and <<>> for the 'ellipsis' marker; a   *)
(* nullable page is <<n>> or <<>> for null.                                *)

Ellipsis == <<>>

PageNo(n) == <<n>>

\* Math.min, Math.max
MathMin(a, b) == IF a <= b THEN a ELSE b

MathMax(a, b) == IF a >= b THEN a ELSE b

\* Math.floor(a / b) and Math.ceil(a / b) for a >= 0, b >= 1
MathFloorDiv(a, b) == a \div b

MathCeilDiv(a, b) == (a + b - 1) \div b

\* totalPages that is never 0
totalPages_AtLeastOne(tc, ps) == MathMax(1, MathCeilDiv(tc, ps))

\* const totalPages = Math.ceil(totalCount / pageSize)
totalPages(tc, ps) == MathCeilDiv(tc, ps)

\* hasNextPage that counts the last page in
hasNextPage_Inclusive(cp, tp) == cp <= tp

\* const hasNextPage = currentPage < totalPages
hasNextPage(cp, tp) == cp < tp

\* const hasPreviousPage = currentPage > 1
hasPreviousPage(cp) == cp > 1

\* const startIndex = (currentPage - 1) * pageSize + 1
startIndex(cp, ps) == (cp - 1) * ps + 1

\* endIndex that runs past the last item
endIndex_Unclamped(tc, cp, ps) == cp * ps

\* const endIndex = Math.min(currentPage * pageSize, totalCount)
endIndex(tc, cp, ps) == MathMin(cp * ps, tc)

calculatePagination(tc, cp, ps) ==
    LET tp == totalPages(tc, ps)
    IN  [totalCount      |-> tc,
         totalPages      |-> tp,
         currentPage     |-> cp,
         pageSize        |-> ps,
         hasNextPage     |-> hasNextPage(cp, tp),
         hasPreviousPage |-> hasPreviousPage(cp),
         startIndex      |-> startIndex(cp, ps),
         endIndex        |-> endIndex(tc, cp, ps),
         isFirstPage     |-> (cp = 1),
         isLastPage      |-> (cp = tp),
         nextPage        |-> IF hasNextPage(cp, tp) THEN Some(cp + 1) ELSE None,
         previousPage    |-> IF hasPreviousPage(cp) THEN Some(cp - 1) ELSE None]

\* PushPages stopping one page early
PushPages_Exclusive(a, b) ==
    IF b - 1 < a THEN <<>> ELSE [i \in 1..(b - a) |-> PageNo(a + i - 1)]

\* the pages a, a + 1, .. b pushed by a for loop (none when b < a)
PushPages(a, b) == IF b < a THEN <<>> ELSE [i \in 1..(b - a + 1) |-> PageNo(a + i - 1)]

generatePageNumbers(cp, tp, mv) ==
    IF tp <= mv THEN PushPages(1, tp)
    ELSE
        LET halfVisible == MathFloorDiv(mv, 2)
            middle ==
                IF cp <= halfVisible + 2
                THEN PushPages(2, MathMin(mv - 1, tp - 1))
                     \o (IF tp > mv - 1 THEN <<Ellipsis>> ELSE <<>>)
                ELSE IF cp >= tp - halfVisible - 1
                THEN (IF tp > mv - 1 THEN <<Ellipsis>> ELSE <<>>)
                     \o PushPages(MathMax(tp - mv + 2, 2), tp - 1)
                ELSE <<Ellipsis>>
                     \o PushPages(cp - halfVisible + 1, cp + halfVisible - 1)
                     \o <<Ellipsis>>
        IN  <<PageNo(1)>> \o middle \o (IF tp > 1 THEN <<PageNo(tp)>> ELSE <<>>)

validatePageNumber(page, tp) ==
    IF page < 1 THEN 1
    ELSE IF page > tp /\ tp > 0 THEN tp
    ELSE page

calculateOffset(page, ps) == (page - 1) * ps

----------------------------------------------------------------------------
(* PaginationService as a state machine: one call, with arguments drawn    *)
(* from the sets below                                                     *)

MaxTotalCount == 7
MaxCurrentPage == 9
MaxTotalPages == 12
MaxVisible == 8

TotalCounts == 0..MaxTotalCount \cup {25}
PageSizes == {1, 2, 3, 20}
CurrentPages == 1..MaxCurrentPage
RequestedPages == (-1)..MaxCurrentPage
TotalPageCounts == 0..MaxTotalPages \cup {20}
VisibleBudgets == 1..MaxVisible

InitPagination ==
    /\ PaginationIdle
    /\ FiltersIdle
    /\ SanitizeIdle
    /\ UiIdle
    /\ ParamsIdle
    /\ SearchIdle

CalculatePagination ==
    /\ pgCall = None
    /\ \E tc \in TotalCounts, cp \in CurrentPages, ps \in PageSizes :
          pgCall' = Some([op |-> "calculatePagination",
                          totalCount |-> tc, currentPage |-> cp, pageSize |-> ps,
                          out |-> calculatePagination(tc, cp, ps)])
    /\ UNCHANGED besidePagination

GeneratePageNumbers ==
    /\ pgCall = None
    /\ \E cp \in CurrentPages, tp \in TotalPageCounts, mv \in VisibleBudgets :
          pgCall' = Some([op |-> "generatePageNumbers",
                          currentPage |-> cp, totalPages |-> tp, maxVisible |-> mv,
                          out |-> generatePageNumbers(cp, tp, mv)])
    /\ UNCHANGED besidePagination

ValidatePageNumber ==
    /\ pgCall = None
    /\ \E page \in RequestedPages, tp \in TotalPageCounts :
          pgCall' = Some([op |-> "validatePageNumber",
                          page |-> page, totalPages |-> tp,
                          out |-> validatePageNumber(page, tp)])
    /\ UNCHANGED besidePagination

CalculateOffset ==
    /\ pgCall = None
    /\ \E page \in CurrentPages, ps \in PageSizes :
          pgCall' = Some([op |-> "calculateOffset",
                          page |-> page, pageSize |-> ps,
                          out |-> calculateOffset(page, ps)])
    /\ UNCHANGED besidePagination

NextPagination ==
    \/ CalculatePagination
    \/ GeneratePageNumbers
    \/ ValidatePageNumber
    \/ CalculateOffset

SpecPagination == InitPagination /\ [][NextPagination]_vars

----------------------------------------------------------------------------
(* Claims about PaginationService (specification SpecPagination) *)

Called(op) == pgCall # None /\ Get(pgCall).op = op

\* C14: calculatePagination returns as totalPages the least n with
\* n * pageSize >= totalCount; for totalCount = 0 that is 0.
C14_TotalPagesIsCeiling ==
    Called("calculatePagination") =>
        LET c == Get(pgCall)
            tp == c.out.totalPages
        IN  /\ tp \in Nat
            /\ tp * c.pageSize >= c.totalCount
            /\ \A n \in 0..(tp - 1) : n * c.pageSize < c.totalCount
            /\ (c.totalCount = 0 => tp = 0)

C14_Witness ==
    /\ Called("calculatePagination")
    /\ Get(pgCall).totalCount = 0
    /\ Get(pgCall).out.totalPages = 0

\* C15: hasNextPage is currentPage < totalPages and hasPreviousPage is
\* currentPage > 1; nextPage is currentPage + 1 exactly when there is a
\* next page and null otherwise, previousPage is currentPage - 1 exactly
\* when there is a previous page and null otherwise; page 2 of 25 items at
\* 20 a page has no next page and has a previous one.
C15_NextAndPrevious ==
    Called("calculatePagination") =>
        LET c == Get(pgCall)
            o == c.out
            last == CHOOSE n \in 0..c.totalCount :
                        /\ n * c.pageSize >= c.totalCount
                        /\ \A m \in 0..(n - 1) : m * c.pageSize < c.totalCount
        IN  /\ o.hasNextPage = (c.currentPage < last)
            /\ o.hasPreviousPage = (c.currentPage > 1)
            /\ o.nextPage = (IF o.hasNextPage THEN Some(c.currentPage + 1) ELSE None)
            /\ o.previousPage = (IF o.hasPreviousPage THEN Some(c.currentPage - 1) ELSE None)
            /\ (c.totalCount = 25 /\ c.pageSize = 20 /\ c.currentPage = 2 =>
                    ~o.hasNextPage /\ o.hasPreviousPage)

C15_Witness ==
    /\ Called("calculatePagination")
    /\ Get(pgCall).totalCount = 25 /\ Get(pgCall).pageSize = 20
    /\ Get(pgCall).currentPage = 2
    /\ ~Get(pgCall).out.hasNextPage /\ Get(pgCall).out.hasPreviousPage
    /\ Get(pgCall).out.nextPage = None /\ Get(pgCall).out.previousPage = Some(1)

\* the request search() is given for page cp at ps items a page, and the
\* rows it returns out of tc matching rows
PageRequest(cp, ps) ==
    [NoParams EXCEPT !.page = Some(Whole(cp)), !.limit = Some(Whole(ps))]

RowsReturned(tc, cp, ps) ==
    SkipTake([n \in 1..tc |-> n], SkipOf(PageRequest(cp, ps)), LimitOf(PageRequest(cp, ps)))

\* C16: for totalCount >= 1 and a page within 1 .. totalPages, startIndex is
\* calculateOffset(currentPage, pageSize) + 1, which is the skip of search()
\* plus one; endIndex is min(currentPage * pageSize, totalCount); the range
\* holds as many positions as search() returns items for the page; and
\* 1 <= startIndex <= endIndex <= totalCount.
C16_DisplayRangeAgreesWithFetch ==
    Called("calculatePagination") =>
        LET c == Get(pgCall)
            o == c.out
        IN  c.totalCount >= 1 /\ 1 <= c.currentPage /\ c.currentPage <= o.totalPages =>
               /\ o.startIndex = calculateOffset(c.currentPage, c.pageSize) + 1
               /\ o.startIndex = SkipOf(PageRequest(c.currentPage, c.pageSize)) + 1
               /\ o.endIndex = (IF c.currentPage * c.pageSize <= c.totalCount
                                THEN c.currentPage * c.pageSize ELSE c.totalCount)
               /\ o.endIndex - o.startIndex + 1
                     = Len(RowsReturned(c.totalCount, c.currentPage, c.pageSize))
               /\ 1 <= o.startIndex /\ o.startIndex <= o.endIndex
               /\ o.endIndex <= c.totalCount

C16_Witness ==
    /\ Called("calculatePagination")
    /\ Get(pgCall).totalCount = 25 /\ Get(pgCall).pageSize = 20
    /\ Get(pgCall).currentPage = 2
    /\ Get(pgCall).out.startIndex = 21 /\ Get(pgCall).out.endIndex = 25
    /\ Len(RowsReturned(25, 2, 20)) = 5

\* C17: validatePageNumber returns the page itself when it lies within
\* 1 .. totalPages, 1 when it is below 1, totalPages when it is above
\* totalPages, and 1 when totalPages is 0; the result lies within
\* 1 .. max(1, totalPages).
C17_PageClamped ==
    Called("validatePageNumber") =>
        LET c == Get(pgCall)
        IN  /\ (1 <= c.page /\ c.page <= c.totalPages => c.out = c.page)
            /\ (c.page < 1 => c.out = 1)
            /\ (c.page > c.totalPages /\ c.totalPages > 0 => c.out = c.totalPages)
            /\ (c.totalPages = 0 => c.out = 1)
            /\ 1 <= c.out
            /\ c.out <= (IF c.totalPages >= 1 THEN c.totalPages ELSE 1)

\* the three windows of the rule, for budget mv over tp pages
StartWindow(tp, mv) == <<PageNo(1)>> \o PushPages(2, mv - 1) \o <<Ellipsis, PageNo(tp)>>

EndWindows(tp) ==
    { <<PageNo(1), Ellipsis>> \o PushPages(k, tp) : k \in 2..tp }

MiddleWindows(cp, tp, mv) ==
    { <<PageNo(1), Ellipsis>> \o PushPages(a, a + mv - 3) \o <<Ellipsis, PageNo(tp)>> :
        a \in { b \in 2..tp :
                  /\ mv >= 3
                  /\ b <= cp /\ cp <= b + mv - 3
                  /\ (cp - b) - (b + mv - 3 - cp) \in {-1, 0, 1} } }

\* C18: for totalPages > maxVisible and a current page within 1 ..
\* totalPages, generatePageNumbers returns the start window [1, 2 ..
\* maxVisible - 1, ellipsis, totalPages], or an end window [1, ellipsis,
\* trailing pages up to totalPages], or a middle window [1, ellipsis,
\* maxVisible - 2 consecutive pages centred on the current page, ellipsis,
\* totalPages]; for (1, 20, 7) it is [1, 2, 3, 4, 5, 6, ellipsis, 20].
C18_WindowOfTheRule ==
    Called("generatePageNumbers") =>
        LET c == Get(pgCall)
        IN  c.totalPages > c.maxVisible /\ 1 <= c.currentPage /\ c.currentPage <= c.totalPages =>
               /\ \/ c.out = StartWindow(c.totalPages, c.maxVisible)
                  \/ c.out \in EndWindows(c.totalPages)
                  \/ c.out \in MiddleWindows(c.currentPage, c.totalPages, c.maxVisible)
               /\ (c.currentPage = 1 /\ c.totalPages = 20 /\ c.maxVisible = 7 =>
                      c.out = <<PageNo(1), PageNo(2), PageNo(3), PageNo(4), PageNo(5),
                                PageNo(6), Ellipsis, PageNo(20)>>)

\* C19: for totalPages > maxVisible and a current page within 1 ..
\* totalPages, the list of generatePageNumbers has no two ellipsis markers
\* side by side, and every ellipsis marker stands between two page numbers
\* that leave at least two pages hidden.
C19_EllipsisHidesTwoOrMore ==
    Called("generatePageNumbers") =>
        LET c == Get(pgCall)
        IN  c.totalPages > c.maxVisible /\ 1 <= c.currentPage /\ c.currentPage <= c.totalPages =>
               \A n \in 1..Len(c.out) :
                  c.out[n] = Ellipsis =>
                     /\ 1 < n /\ n < Len(c.out)
                     /\ c.out[n - 1] # Ellipsis
                     /\ c.out[n + 1] # Ellipsis
                     /\ Get(c.out[n + 1]) - Get(c.out[n - 1]) - 1 >= 2

----------------------------------------------------------------------------
(* Deep links: the filter state of the UI written into the query string of *)
(* /catalog and read back, by the catalog page and by FilterService        *)
(* (src/unnamed/part_003).  A FilterState holds three texts ('' is <<>>)   *)
(* and two prices in the fixed-point representation (0: unset).            *)

DigitChar(d) ==
    CASE d = 0 -> "0" [] d = 1 -> "1" [] d = 2 -> "2" [] d = 3 -> "3"
      [] d = 4 -> "4" [] d = 5 -> "5" [] d = 6 -> "6" [] d = 7 -> "7"
      [] d = 8 -> "8" [] d = 9 -> "9"

RECURSIVE IntDigits(_)
IntDigits(n) ==
    IF n < 10 THEN <<DigitChar(n)>>
    ELSE IntDigits(n \div 10) \o <<DigitChar(n % 10)>>

\* Number.prototype.toString() of a number >= 0
NumberToString(v) ==
    IF IsInteger(v) THEN IntDigits(v \div 10)
    ELSE IntDigits(v \div 10) \o <<".", DigitChar(v % 10)>>

\* parseFloat(str): the number of the longest numeral str begins with, after
\* leading white space; NaN when there is none
ParseFloat(str) ==
    LET t == TrimLeft(str)
        ks == { k \in 1..Len(t) :
                  /\ \A i \in 1..k : ~IsSpace(t[i])
                  /\ ~ToNumber(SubSeq(t, 1, k)).nan }
    IN  IF ks = {} THEN NaN ELSE ToNumber(SubSeq(t, 1, SetMax(ks)))

\* sanitizeNumber(input, min, max): NaN stands for the Error it throws
sanitizeNumber(input, min, max) ==
    IF input.nan THEN NaN
    ELSE Num(MathMax(Whole(min), MathMin(Whole(max), input.v)))

\* URLSearchParams.toString(): the application/x-www-form-urlencoded form of
\* a value
FormEncodeChar(c) ==
    CASE c = " " -> <<"+">>
      [] c = "%" -> <<"%", "2", "5">>
      [] c = "<" -> <<"%", "3", "C">>
      [] OTHER   -> <<c>>

RECURSIVE FormEncode(_)
FormEncode(s) ==
    IF \A i \in 1..Len(s) : FormEncodeChar(s[i]) = <<s[i]>> THEN s
    ELSE FormEncodeChar(Head(s)) \o FormEncode(Tail(s))

\* the value the router hands to the page for a key of the query string
FormDecode(s) ==
    LET spaced == [i \in 1..Len(s) |-> IF s[i] = "+" THEN " " ELSE s[i]]
    IN  IF DecodeOK(spaced) THEN DecodeVal(spaced) ELSE spaced

\* params.set(key, value.trim().slice(0, max)) when that is not empty
UiText(value, max) ==
    LET sanitizedValue == Slice(Trim(value), max)
    IN  IF sanitizedValue # <<>> THEN Some(sanitizedValue) ELSE None

\* the price field of the sidebar: the text shown for the price, parsed and
\* set when it is a number within [0, 1000000]
UiPrice(price) ==
    LET localPrice == IF price > 0 THEN NumberToString(price) ELSE <<>>
        parsed == ParseFloat(localPrice)
    IN  IF ~parsed.nan /\ parsed.v >= 0 /\ parsed.v <= Whole(MaxPrice)
        THEN Some(NumberToString(parsed.v)) ELSE None

\* the query string the search bar and the sidebar leave for the filters F
WriteFilters(F) ==
    [NoParams EXCEPT !.q = UiText(F.query, MaxQueryLen),
                     !.category = UiText(F.category, MaxLabelLen),
                     !.location = UiText(F.location, MaxLabelLen),
                     !.min = UiPrice(F.priceRange.min),
                     !.max = UiPrice(F.priceRange.max)]

\* the query string of the URL, and the searchParams the page is given
QueryString(written) ==
    [k \in Keys |-> IF IsSome(written[k]) THEN Some(FormEncode(Get(written[k]))) ELSE None]

PageSearchParams(queryString) ==
    [k \in Keys |-> IF IsSome(queryString[k]) THEN Some(FormDecode(Get(queryString[k])))
                    ELSE None]

\* catalog page: const currentFilters = { query: validatedParams.q || '', .. }
currentFilters(validatedParams) ==
    [query    |-> IF IsSome(validatedParams.q) THEN Get(validatedParams.q) ELSE <<>>,
     category |-> IF IsSome(validatedParams.category) THEN Get(validatedParams.category)
                  ELSE <<>>,
     location |-> IF IsSome(validatedParams.location) THEN Get(validatedParams.location)
                  ELSE <<>>,
     priceRange |-> [min |-> IF IsSome(validatedParams.min) THEN Get(validatedParams.min)
                             ELSE 0,
                     max |-> IF IsSome(validatedParams.max) THEN Get(validatedParams.max)
                             ELSE 0]]

\* FilterService: getFirstValue
getFirstValue(value) == IF value = <<>> THEN <<>> ELSE value[1]

urlParamsToFilterState(searchParams) ==
    LET minParam == getFirstValue(searchParams.min)
        maxParam == getFirstValue(searchParams.max)
        minPrice == IF minParam # <<>>
                    THEN sanitizeNumber(ParseFloat(minParam), 0, MaxPrice) ELSE Num(0)
        maxPrice == IF maxParam # <<>>
                    THEN sanitizeNumber(ParseFloat(maxParam), 0, MaxPrice) ELSE Num(0)
        thrown == minPrice.nan \/ maxPrice.nan
    IN  [query    |-> sanitizeString(getFirstValue(searchParams.q), MaxQueryLen),
         category |-> sanitizeString(getFirstValue(searchParams.category), MaxLabelLen),
         location |-> sanitizeString(getFirstValue(searchParams.location), MaxLabelLen),
         priceRange |-> [min |-> IF thrown THEN 0 ELSE minPrice.v,
                         max |-> IF thrown THEN 0 ELSE maxPrice.v]]

filterStateToUrlParams(filters) ==
    [NoParams EXCEPT
        !.q = IF Trim(filters.query) # <<>> THEN Some(Trim(filters.query)) ELSE None,
        !.category = IF Trim(filters.category) # <<>> THEN Some(Trim(filters.category))
                     ELSE None,
        !.location = IF Trim(filters.location) # <<>> THEN Some(Trim(filters.location))
                     ELSE None,
        !.min = IF filters.priceRange.min > 0
                THEN Some(NumberToString(filters.priceRange.min)) ELSE None,
        !.max = IF filters.priceRange.max > 0
                THEN Some(NumberToString(filters.priceRange.max)) ELSE None]

\* the filter states the UI can produce: trimmed texts within their limits,
\* prices within [0, 1000000], min <= max when both are set
QueryTexts ==
    { <<>>, <<"a", " ", "b">>, <<"a", "<">>, <<"1", "0", "0", "%">>,
      <<"%", "4", "1">>, Rep("a", MaxQueryLen) }

CategoryTexts == { <<>>, <<"x">>, <<"%", "2", "0">> }

LocationTexts == { <<>>, <<"n">> }

PriceRanges ==
    { [min |-> 0, max |-> 0], [min |-> Whole(5), max |-> 0], [min |-> 0, max |-> Whole(10)],
      [min |-> Whole(10), max |-> Whole(10)], [min |-> 5, max |-> Whole(MaxPrice)] }

FilterStates ==
    { [query |-> q, category |-> c, location |-> l, priceRange |-> pr] :
        q \in QueryTexts, c \in CategoryTexts, l \in LocationTexts, pr \in PriceRanges }

InitFilters ==
    /\ FiltersIdle
    /\ SanitizeIdle
    /\ UiIdle
    /\ PaginationIdle
    /\ ParamsIdle
    /\ SearchIdle

\* the UI writes F into the URL and the catalog page is loaded from it
DeepLinkCatalogPage ==
    /\ ftCall = None
    /\ \E F \in FilterStates :
          LET url == QueryString(WriteFilters(F))
          IN  ftCall' = Some([op |-> "catalogPage", filters |-> F, url |-> url,
                              out |-> currentFilters(
                                         processSearchParams("record", PageSearchParams(url)))])
    /\ UNCHANGED besideFilters

\* FilterService turns F into URL parameters and these back into a state
DeepLinkFilterService ==
    /\ ftCall = None
    /\ \E F \in FilterStates :
          LET url == filterStateToUrlParams(F)
          IN  ftCall' = Some([op |-> "filterService", filters |-> F, url |-> url,
                              out |-> urlParamsToFilterState(url)])
    /\ UNCHANGED besideFilters

\* FilterService.hasActiveFilters
hasActiveFilters(filters) ==
    \/ Trim(filters.query) # <<>>
    \/ Trim(filters.category) # <<>>
    \/ Trim(filters.location) # <<>>
    \/ filters.priceRange.min > 0
    \/ filters.priceRange.max > 0

\* count++ when the condition holds
CountIf(condition) == IF condition THEN 1 ELSE 0

\* getActiveFilterCount counting each price bound on its own
getActiveFilterCount_PerBound(filters) ==
    CountIf(Trim(filters.query) # <<>>)
    + CountIf(Trim(filters.category) # <<>>)
    + CountIf(Trim(filters.location) # <<>>)
    + CountIf(filters.priceRange.min > 0) + CountIf(filters.priceRange.max > 0)

\* FilterService.getActiveFilterCount
getActiveFilterCount(filters) ==
    CountIf(Trim(filters.query) # <<>>)
    + CountIf(Trim(filters.category) # <<>>)
    + CountIf(Trim(filters.location) # <<>>)
    + CountIf(filters.priceRange.min > 0 \/ filters.priceRange.max > 0)

\* the filter states the mobile filter button may be given: texts blank,
\* padded or plain, prices of any sign
ButtonTexts == { <<>>, <<" ">>, <<"a">>, <<" ", "a", " ">> }

ButtonPriceRanges ==
    { [min |-> 0, max |-> 0], [min |-> Whole(5), max |-> 0], [min |-> 0, max |-> Whole(10)],
      [min |-> Whole(5), max |-> Whole(10)], [min |-> 0 - Whole(1), max |-> 0] }

ButtonFilterStates ==
    { [query |-> q, category |-> c, location |-> l, priceRange |-> pr] :
        q \in ButtonTexts, c \in ButtonTexts, l \in ButtonTexts, pr \in ButtonPriceRanges }

\* MobileFilterButton is rendered for the filters F
MobileFilterButton ==
    /\ ftCall = None
    /\ \E F \in ButtonFilterStates :
          ftCall' = Some([op |-> "mobileFilterButton", filters |-> F,
                          activeFilterCount |-> getActiveFilterCount(F),
                          hasActiveFilters |-> hasActiveFilters(F)])
    /\ UNCHANGED besideFilters

\* encodeURIComponent(str)
EncodeURIComponentChar(c) ==
    CASE c = " " -> <<"%", "2", "0">>
      [] c = "%" -> <<"%", "2", "5">>
      [] c = "<" -> <<"%", "3", "C">>
      [] OTHER   -> <<c>>

RECURSIVE safeEncodeURIComponent(_)
safeEncodeURIComponent(str) ==
    IF \A i \in 1..Len(str) : EncodeURIComponentChar(str[i]) = <<str[i]>> THEN str
    ELSE EncodeURIComponentChar(Head(str)) \o safeEncodeURIComponent(Tail(str))

\* buildCatalogUrl(baseUrl, searchParams, includePage): the values set on
\* url.searchParams, per key
buildCatalogUrl(searchParams, includePage) ==
    [k \in Keys |->
        CASE k \in TextKeys ->
                 IF IsSome(searchParams[k]) /\ Get(searchParams[k]) # <<>>
                 THEN Some(safeEncodeURIComponent(Get(searchParams[k]))) ELSE None
          [] k \in {"min", "max"} ->
                 IF IsSome(searchParams[k]) /\ Get(searchParams[k]) # 0
                 THEN Some(NumberToString(Get(searchParams[k]))) ELSE None
          [] k = "page" ->
                 IF includePage /\ IsSome(searchParams.page)
                    /\ Get(searchParams.page) > Whole(1)
                 THEN Some(NumberToString(Get(searchParams.page))) ELSE None
          [] OTHER -> None]

\* handleSearchRedirect(searchParams): url.pathname and the query string of
\* url.search, per key
handleSearchRedirect(f, r) ==
    [pathname |-> "/catalog",
     search |-> QueryString(buildCatalogUrl(processSearchParams(f, r), TRUE))]

\* the valid requests /search is given
RedirectRequests ==
    { [q |-> q, category |-> c, location |-> l, min |-> mn, max |-> mx,
       page |-> pg, limit |-> lm] :
        q \in {<<>>, <<<<"a", " ", "b">>>>, <<<<"a", "<">>>>},
        c \in {<<>>, <<<<"x">>>>},
        l \in {<<>>, <<<<"n">>>>},
        mn \in {<<>>, <<<<"0">>>>, <<<<"1", "0">>>>},
        mx \in {<<>>, <<<<"1", "0">>>>, <<<<"1", "0", ".", "5">>>>},
        pg \in {<<>>, <<<<"1">>>>, <<<<"2">>>>},
        lm \in {<<>>, <<<<"5", "0">>>>} }

\* /search is requested with P, redirects, and /catalog parses the target
SearchRedirect ==
    /\ ftCall = None
    /\ \E P \in RedirectRequests :
          LET target == handleSearchRedirect("record", P)
          IN  ftCall' = Some([op |-> "searchRedirect", request |-> P, url |-> target,
                              out |-> processSearchParams("record",
                                                          PageSearchParams(target.search))])
    /\ UNCHANGED besideFilters

NextFilters ==
    \/ DeepLinkCatalogPage
    \/ DeepLinkFilterService
    \/ MobileFilterButton
    \/ SearchRedirect

SpecFilters == InitFilters /\ [][NextFilters]_vars

----------------------------------------------------------------------------
(* Claims about deep links (specification SpecFilters) *)

\* C20: the filter state read back from the URL is the filter state that
\* was written into it, through the catalog page and through FilterService.
C20_DeepLinkRestoresFilters ==
    ftCall # None /\ Get(ftCall).op \in {"catalogPage", "filterService"} =>
        Get(ftCall).out = Get(ftCall).filters

----------------------------------------------------------------------------
(* Further claims about search() (specification Spec) *)

\* C23: search() is deterministic: over the same table the same request
\* has one possible answer, so what a call returned is what any other call
\* returns: the same items in the same order, the same totalCount and the
\* same facets in the same order, entries of equal count included.
C23_Deterministic ==
    Returned =>
        LET r == Get(result)
        IN  /\ \A pg \in FindMany(catalog, Where, SkipOf(validated), LimitOf(validated)) :
                  pg = r.products
            /\ r.totalCount = TotalCountOf(catalog, params)
            /\ \A f \in CategoryFacetsOf(catalog, params) : f = r.facets.categories
            /\ \A f \in LocationFacetsOf(catalog, params) : f = r.facets.locations
            /\ r.facets.priceRange = PriceRangeOf(catalog, params)

RECURSIVE SumCounts(_)
SumCounts(f) == IF f = <<>> THEN 0 ELSE Head(f).count + SumCounts(Tail(f))

DistinctLabels(f) == \A a, b \in 1..Len(f) : a # b => f[a].name # f[b].name

\* C27: with no category filter the counts of the category facet add up to
\* totalCount, and with no location filter the counts of the location facet
\* add up to totalCount; every facet entry counts at least one item and no
\* label has two entries.
C27_FacetCountsSumToTotal ==
    Returned =>
        LET r == Get(result)
        IN  /\ (~IsSome(params.category) => SumCounts(r.facets.categories) = r.totalCount)
            /\ (~IsSome(params.location) => SumCounts(r.facets.locations) = r.totalCount)
            /\ \A e \in Entries(r.facets.categories) \cup Entries(r.facets.locations) :
                  e.count >= 1
            /\ DistinctLabels(r.facets.categories)
            /\ DistinctLabels(r.facets.locations)

C27_Witness ==
    /\ Returned
    /\ ~IsSome(params.category) /\ ~IsSome(params.location) /\ IsSome(params.max)
    /\ Len(Get(result).facets.categories) >= 2
    /\ Len(Get(result).facets.locations) >= 1
    /\ Get(result).totalCount >= 2
    /\ \E i \in catalog : ~PriceHolds(i, params)

----------------------------------------------------------------------------
(* Further claims about PaginationService (specification SpecPagination) *)

\* the page numbers of a page list, without its ellipsis markers
PageNumbers(list) ==
    LET shown == SelectSeq(list, LAMBDA e : e # Ellipsis)
    IN  [n \in 1..Len(shown) |-> Get(shown[n])]

\* C28: with the default budget of 7, for totalPages >= 1 and a current
\* page within 1 .. totalPages, the page numbers of generatePageNumbers are
\* strictly increasing values within 1 .. totalPages, begin with 1, end with
\* totalPages, include the current page, and are at most 7.
C28_PageNumbersOfDefaultBudget ==
    Called("generatePageNumbers") =>
        LET c == Get(pgCall)
            nums == PageNumbers(c.out)
        IN  c.maxVisible = 7 /\ c.totalPages >= 1
            /\ 1 <= c.currentPage /\ c.currentPage <= c.totalPages =>
               /\ \A n \in 1..Len(nums) : 1 <= nums[n] /\ nums[n] <= c.totalPages
               /\ \A n \in 1..(Len(nums) - 1) : nums[n] < nums[n + 1]
               /\ Len(nums) >= 1
               /\ nums[1] = 1
               /\ nums[Len(nums)] = c.totalPages
               /\ \E n \in 1..Len(nums) : nums[n] = c.currentPage
               /\ Len(nums) <= 7

C28_Witness ==
    /\ Called("generatePageNumbers")
    /\ Get(pgCall).maxVisible = 7 /\ Get(pgCall).totalPages = 20
    /\ Get(pgCall).currentPage = 8
    /\ Len(PageNumbers(Get(pgCall).out)) = 7
    /\ Len(Get(pgCall).out) = 9

----------------------------------------------------------------------------
(* sanitizeSearchQuery as a state machine: one call on a text made of a    *)
(* lead, a run of letters and a tail                                       *)

QueryLeads == { <<>>, <<" ">>, <<"<">>, <<"&", " ">> }

QueryBodies == { Rep("a", n) : n \in {0, 1, 198, 199, 200, 201} }

QueryTails == { <<>>, <<">">>, <<"b">>, <<"'", " ">>, <<"\"", "b">> }

Queries == { l \o b \o t : l \in QueryLeads, b \in QueryBodies, t \in QueryTails }

InitSanitize ==
    /\ SanitizeIdle
    /\ UiIdle
    /\ FiltersIdle
    /\ PaginationIdle
    /\ ParamsIdle
    /\ SearchIdle

SanitizeSearchQuery ==
    /\ sqCall = None
    /\ \E q \in Queries :
          sqCall' = Some([query |-> q, out |-> sanitizeSearchQuery(q)])
    /\ UNCHANGED besideSanitize

NextSanitize == SanitizeSearchQuery

SpecSanitize == InitSanitize /\ [][NextSanitize]_vars

----------------------------------------------------------------------------
(* Claims about sanitizeSearchQuery (specification SpecSanitize) *)

Harmless(s) == \A i \in 1..Len(s) : s[i] \notin HarmfulChars

\* C24 as stated: the result is the query trimmed, capped at 200 characters
\* and then rid of the characters < > " ' &; it holds none of them and has
\* at most 200 characters.
C24_Original ==
    sqCall # None =>
        LET c == Get(sqCall)
        IN  /\ c.out = StripHarmful(Slice(Trim(c.query), MaxQueryLen))
            /\ Harmless(c.out)
            /\ Len(c.out) <= MaxQueryLen

\* C24: the result is the query trimmed, rid of the characters < > " ' &
\* and then capped at 200 characters; it holds none of them and has at most
\* 200 characters; for a query of at most 200 characters once trimmed this
\* is also the query trimmed, capped and then rid of those characters.
C24_TrimStripCap ==
    sqCall # None =>
        LET c == Get(sqCall)
        IN  /\ c.out = Slice(StripHarmful(Trim(c.query)), MaxQueryLen)
            /\ Harmless(c.out)
            /\ Len(c.out) <= MaxQueryLen
            /\ (Len(Trim(c.query)) <= MaxQueryLen =>
                   c.out = StripHarmful(Slice(Trim(c.query), MaxQueryLen)))

C24_Witness ==
    /\ sqCall # None
    /\ Len(Trim(Get(sqCall).query)) > MaxQueryLen
    /\ ~Harmless(Slice(Trim(Get(sqCall).query), MaxQueryLen))
    /\ Len(Get(sqCall).out) = MaxQueryLen
    /\ Harmless(Get(sqCall).out)

----------------------------------------------------------------------------
(* Claims about the mobile filter button (specification SpecFilters) *)

\* the dimensions of F that are active
ActiveDimensions(F) ==
    { d \in {"query", "category", "location"} : \E i \in 1..Len(F[d]) : ~IsSpace(F[d][i]) }
    \cup (IF F.priceRange.min > 0 \/ F.priceRange.max > 0 THEN {"priceRange"} ELSE {})

\* C25: the count of the mobile filter button is the number of active
\* dimensions among query, category, location (not blank) and price range
\* (min > 0 or max > 0, counted once); it lies within 0 .. 4 and is above 0
\* exactly when hasActiveFilters holds.
C25_ActiveFilterCount ==
    ftCall # None /\ Get(ftCall).op = "mobileFilterButton" =>
        LET c == Get(ftCall)
        IN  /\ c.activeFilterCount = Cardinality(ActiveDimensions(c.filters))
            /\ c.activeFilterCount \in 0..4
            /\ (c.activeFilterCount > 0) = c.hasActiveFilters

C25_Witness ==
    /\ ftCall # None /\ Get(ftCall).op = "mobileFilterButton"
    /\ Get(ftCall).filters.priceRange.min > 0 /\ Get(ftCall).filters.priceRange.max > 0
    /\ Get(ftCall).filters.query = <<" ">>
    /\ Get(ftCall).filters.category = <<" ", "a", " ">>
    /\ Get(ftCall).activeFilterCount = 2
    /\ Get(ftCall).hasActiveFilters

----------------------------------------------------------------------------
(* Claims about the /search redirect (specification SpecFilters) *)

\* C21: the path handleSearchRedirect returns for a valid request is
\* /catalog with a query string that the catalog parses to the values of
\* the request, for each of q, category, location, min, max, page and limit.
C21_RedirectKeepsParameters ==
    ftCall # None /\ Get(ftCall).op = "searchRedirect" =>
        LET c == Get(ftCall)
        IN  /\ c.url.pathname = "/catalog"
            /\ \A k \in Keys : c.out[k] = processSearchParams("record", c.request)[k]

----------------------------------------------------------------------------
(* The filter handlers of the catalog page's client components.  Each one  *)
(* copies the query parameters of the current URL (key -> value, <<>> when *)
(* the key is absent), edits the copy and hands router.push the URL        *)
(* '/catalog?' + params.toString(), or '/catalog' for an empty copy.  The  *)
(* answer is the URL pushed, <<>> when the handler returns without a push. *)

\* const url = queryString ? `/catalog?${queryString}` : '/catalog'
CatalogUrl(query) == [pathname |-> "/catalog", search |-> QueryString(query)]

\* FilterSidebar.updateFilter leaving the page parameter in place
updateFilter_KeepPage(searchParams, key, value) ==
    Some(CatalogUrl([searchParams EXCEPT ![key] = UiText(value, MaxLabelLen)]))

\* FilterSidebar.updateFilter(key, value)
updateFilter(searchParams, key, value) ==
    Some(CatalogUrl([searchParams EXCEPT ![key] = UiText(value, MaxLabelLen),
                                         !.page = None]))

\* the price the sidebar sets for a price field: parseFloat(field).toString()
\* when that is a number within [0, 1000000]
PriceParam(localPrice) ==
    LET price == ParseFloat(localPrice)
    IN  IF ~price.nan /\ price.v >= 0 /\ price.v <= Whole(MaxPrice)
        THEN Some(NumberToString(price.v)) ELSE None

\* FilterSidebar.updatePriceRange()
updatePriceRange(searchParams, localMinPrice, localMaxPrice) ==
    LET minPrice == ParseFloat(localMinPrice)
        maxPrice == ParseFloat(localMaxPrice)
    IN  IF ~minPrice.nan /\ ~maxPrice.nan /\ minPrice.v > maxPrice.v THEN None
        ELSE Some(CatalogUrl([searchParams EXCEPT !.min = PriceParam(localMinPrice),
                                                  !.max = PriceParam(localMaxPrice),
                                                  !.page = None]))

\* FilterSidebar.clearPriceRange()
clearPriceRange(searchParams) ==
    Some(CatalogUrl([searchParams EXCEPT !.min = None, !.max = None, !.page = None]))

\* SearchBar.handleSearch(newQuery), of the render in which isSearching held
\* the given value
handleSearch(searchParams, isSearching, newQuery) ==
    IF isSearching THEN None
    ELSE Some(CatalogUrl([searchParams EXCEPT !.q = UiText(newQuery, MaxQueryLen),
                                              !.page = None]))

\* FilterPills.removeFilter(filterType)
removeFilter(searchParams, filterType) ==
    CASE filterType = "query" ->
             Some(CatalogUrl([searchParams EXCEPT !.q = None, !.page = None]))
      [] filterType = "category" ->
             Some(CatalogUrl([searchParams EXCEPT !.category = None, !.page = None]))
      [] filterType = "location" ->
             Some(CatalogUrl([searchParams EXCEPT !.location = None, !.page = None]))
      [] filterType = "priceRange" ->
             Some(CatalogUrl([searchParams EXCEPT !.min = None, !.max = None,
                                                  !.page = None]))
      [] OTHER -> None

\* the catalog URLs a handler may start from: every parameter absent or set
CatalogUrls ==
    { [q |-> q, category |-> c, location |-> l, min |-> mn, max |-> mx,
       page |-> pg, limit |-> lm] :
        q \in {None, Some(<<"a", " ", "b">>)},
        c \in {None, Some(<<"x">>)},
        l \in {None, Some(<<"N", " ", "Y">>)},
        mn \in {None, Some(<<"1">>)},
        mx \in {None, Some(<<"5">>)},
        pg \in {None, Some(<<"2">>)},
        lm \in {None, Some(<<"5", "0">>)} }

\* the values of the radio buttons of a filter section: 'All', then the names
RadioValues == { <<>>, <<"x">>, <<"y", " ", "z">>, <<" ", "y">>, Rep("y", MaxLabelLen + 1) }

\* what the price fields and the search box may hold
PriceFields == { <<>>, <<"0">>, <<"1">>, <<"5">>, <<"2", ".", "5">> }

BoxTexts == { <<>>, <<"a">>, <<" ", "a">>, <<"a", " ", "b", " ">>, Rep("a", MaxQueryLen + 1) }

PillTypes == { "query", "category", "location", "priceRange" }

InitHandlers ==
    /\ FiltersIdle
    /\ SanitizeIdle
    /\ UiIdle
    /\ PaginationIdle
    /\ ParamsIdle
    /\ SearchIdle

\* a radio button of the category or the location section is chosen
SelectFilter ==
    /\ uiCall = None
    /\ \E sp \in CatalogUrls, key \in {"category", "location"}, value \in RadioValues :
          uiCall' = Some([op |-> "updateFilter", searchParams |-> sp, own |-> {key},
                          key |-> key, value |-> value,
                          pushed |-> updateFilter(sp, key, value)])
    /\ UNCHANGED <<besideUi, urlParams, pushed, sidebar, searchBar, pager>>

\* the price form is submitted (the button is disabled while both fields are
\* empty)
ApplyPriceRange ==
    /\ uiCall = None
    /\ \E sp \in CatalogUrls, mn \in PriceFields, mx \in PriceFields :
          /\ mn # <<>> \/ mx # <<>>
          /\ uiCall' = Some([op |-> "updatePriceRange", searchParams |-> sp,
                             own |-> {"min", "max"},
                             localMinPrice |-> mn, localMaxPrice |-> mx,
                             pushed |-> updatePriceRange(sp, mn, mx)])
    /\ UNCHANGED <<besideUi, urlParams, pushed, sidebar, searchBar, pager>>

\* the Clear button of the price section
ClearPriceRange ==
    /\ uiCall = None
    /\ \E sp \in CatalogUrls :
          uiCall' = Some([op |-> "clearPriceRange", searchParams |-> sp,
                          own |-> {"min", "max"},
                          pushed |-> clearPriceRange(sp)])
    /\ UNCHANGED <<besideUi, urlParams, pushed, sidebar, searchBar, pager>>

\* the search form is submitted
SubmitSearch ==
    /\ uiCall = None
    /\ \E sp \in CatalogUrls, text \in BoxTexts, busy \in BOOLEAN :
          uiCall' = Some([op |-> "handleSearch", searchParams |-> sp, own |-> {"q"},
                          isSearching |-> busy, newQuery |-> text,
                          pushed |-> handleSearch(sp, busy, text)])
    /\ UNCHANGED <<besideUi, urlParams, pushed, sidebar, searchBar, pager>>

\* the remove button of a filter pill
RemovePill ==
    /\ uiCall = None
    /\ \E sp \in CatalogUrls, type \in PillTypes :
          uiCall' = Some([op |-> "removeFilter", searchParams |-> sp,
                          own |-> IF type = "query" THEN {"q"}
                                  ELSE IF type = "priceRange" THEN {"min", "max"}
                                  ELSE {type},
                          filterType |-> type,
                          pushed |-> removeFilter(sp, type)])
    /\ UNCHANGED <<besideUi, urlParams, pushed, sidebar, searchBar, pager>>

NextHandlers ==
    \/ SelectFilter
    \/ ApplyPriceRange
    \/ ClearPriceRange
    \/ SubmitSearch
    \/ RemovePill

SpecHandlers == InitHandlers /\ [][NextHandlers]_vars

----------------------------------------------------------------------------
(* Claims about the filter handlers (specification SpecHandlers) *)

\* the parameters the page is given when it is loaded from the URL pushed
Landed(url) == PageSearchParams(url.search)

\* the handler pushed a /catalog URL without a page parameter that differs
\* from the URL it read in the handler's own parameters at most
KeepsTheRest(c) ==
    LET to == Landed(Get(c.pushed))
    IN  /\ Get(c.pushed).pathname = "/catalog"
        /\ to.page = None
        /\ \A k \in Keys \ (c.own \cup {"page"}) : to[k] = c.searchParams[k]

\* C22 as stated: every filter action navigates, and to a URL that keeps the
\* other parameters and has no page parameter.
C22_Original ==
    uiCall # None => Get(uiCall).pushed # None /\ KeepsTheRest(Get(uiCall))

\* C22: every navigation of a filter action (choosing a category or a
\* location, applying or clearing the price range, submitting search text,
\* removing a filter pill) goes to a /catalog URL in which the parameters
\* other than the action's own keep their values and the page parameter is
\* absent; choosing a category from no filters gives /catalog?category=<it>,
\* and clearing the only price filter gives /catalog.  A price range whose
\* minimum exceeds its maximum, and a search submitted while another is in
\* flight, navigate nowhere.
C22_FilterActionKeepsTheRest ==
    uiCall # None =>
        LET c == Get(uiCall)
        IN  /\ c.pushed # None => KeepsTheRest(c)
            /\ (c.pushed = None =>
                  \/ c.op = "handleSearch" /\ c.isSearching
                  \/ /\ c.op = "updatePriceRange"
                     /\ ~ParseFloat(c.localMinPrice).nan
                     /\ ~ParseFloat(c.localMaxPrice).nan
                     /\ ParseFloat(c.localMinPrice).v > ParseFloat(c.localMaxPrice).v)
            /\ (c.op = "updateFilter" /\ c.searchParams = NoParams
                  /\ c.key = "category" /\ c.value = <<"x">> =>
                     Landed(Get(c.pushed)) = [NoParams EXCEPT !.category = Some(<<"x">>)])
            /\ (c.op = "clearPriceRange"
                  /\ c.searchParams = [NoParams EXCEPT !.min = Some(<<"1">>),
                                                       !.max = Some(<<"5">>)] =>
                     Get(c.pushed).search = NoParams)

\* a location is chosen on page 2 of a filtered catalog: it is set, the other
\* filters stay and the page parameter goes
C22_Witness ==
    /\ uiCall # None
    /\ Get(uiCall).op = "updateFilter"
    /\ Get(uiCall).key = "location"
    /\ Get(uiCall).value = <<"y", " ", "z">>
    /\ Get(uiCall).searchParams.page = Some(<<"2">>)
    /\ Get(uiCall).searchParams.q = Some(<<"a", " ", "b">>)
    /\ Get(uiCall).pushed # None
    /\ Landed(Get(Get(uiCall).pushed)).location = Some(<<"y", " ", "z">>)
    /\ Landed(Get(Get(uiCall).pushed)).q = Some(<<"a", " ", "b">>)

----------------------------------------------------------------------------
(* FilterSidebar as a component: its props, its two price fields, what it  *)
(* renders and its keydown listener.  router.push leaves the URL in pushed *)
(* until the router navigates to it.                                       *)

\* the filters the catalog page hands its components for the current URL
FiltersOf(query) == currentFilters(processSearchParams("record", query))

\* useState(currentFilters.priceRange.min > 0 ? ...min.toString() : '')
LocalPrice(price) == IF price > 0 THEN NumberToString(price) ELSE <<>>

\* what FilterSidebar returns: the elements of its top level
FilterSidebarDom(isMobile, isOpen) ==
    IF isMobile
    THEN (IF isOpen THEN {"backdrop"} ELSE {}) \cup {"dialog"}
    ELSE {"sidebar"}

\* the effect that listens for Escape: a keydown listener is on the document
EscapeListener(isMobile, isOpen) == isMobile /\ isOpen

\* the component rendered with the given props
RenderSidebar(sb, isMobile, isOpen) ==
    [sb EXCEPT !.isMobile = isMobile, !.isOpen = isOpen,
               !.dom = FilterSidebarDom(isMobile, isOpen),
               !.listening = EscapeListener(isMobile, isOpen)]

\* the URLs the sidebar is mounted on
SidebarUrls ==
    { [NoParams EXCEPT !.category = c, !.min = mn, !.max = mx, !.page = pg] :
        c \in {None, Some(<<"x">>)},
        mn \in {None, Some(<<"1">>)},
        mx \in {None, Some(<<"5">>)},
        pg \in {None, Some(<<"2">>)} }

Keyboard == { "Escape", "Enter" }

\* what is typed into the price fields of the sidebar
SidebarPrices == { <<>>, <<"1">>, <<"5">> }

InitSidebar ==
    /\ FiltersIdle
    /\ SanitizeIdle
    /\ PaginationIdle
    /\ ParamsIdle
    /\ SearchIdle
    /\ uiCall = None
    /\ pushed = None
    /\ searchBar = Unmounted
    /\ pager = Unmounted
    /\ urlParams \in SidebarUrls
    /\ \E isMobile \in BOOLEAN, isOpen \in BOOLEAN, onClose \in BOOLEAN :
          sidebar = RenderSidebar(
                       [mounted |-> TRUE, isMobile |-> FALSE, isOpen |-> TRUE,
                        onClose |-> onClose,
                        localMinPrice |-> LocalPrice(FiltersOf(urlParams).priceRange.min),
                        localMaxPrice |-> LocalPrice(FiltersOf(urlParams).priceRange.max),
                        dom |-> {}, listening |-> FALSE, onCloseCalledBy |-> ""],
                       isMobile, isOpen)

\* the event whose handler called onClose just now, "" when the last handler
\* did not call it
Handled(sb, event, called) ==
    [sb EXCEPT !.onCloseCalledBy = IF called THEN event ELSE ""]

\* the parent renders the sidebar with isOpen changed
SetIsOpen ==
    /\ sidebar.mounted
    /\ sidebar' = Handled(RenderSidebar(sidebar, sidebar.isMobile, ~sidebar.isOpen),
                          "props", FALSE)
    /\ UNCHANGED <<besideUi, uiCall, urlParams, pushed, searchBar, pager>>

\* a key goes down on the document
KeyDown ==
    /\ sidebar.mounted
    /\ \E key \in Keyboard :
          sidebar' = Handled(sidebar, key,
                             sidebar.listening /\ key = "Escape" /\ sidebar.onClose)
    /\ UNCHANGED <<besideUi, uiCall, urlParams, pushed, searchBar, pager>>

\* a click on the backdrop or on the close button of the drawer
ClickToClose ==
    /\ sidebar.mounted
    /\ \E element \in {"backdrop", "dialog"} :
          /\ element \in sidebar.dom
          /\ sidebar' = Handled(sidebar, IF element = "dialog" THEN "close button"
                                         ELSE element, sidebar.onClose)
    /\ UNCHANGED <<besideUi, uiCall, urlParams, pushed, searchBar, pager>>

\* a price field is edited
EditPrice ==
    /\ sidebar.mounted
    /\ \E field \in {"localMinPrice", "localMaxPrice"}, text \in SidebarPrices :
          /\ sidebar[field] # text
          /\ sidebar' = Handled([sidebar EXCEPT ![field] = text], "change", FALSE)
    /\ UNCHANGED <<besideUi, uiCall, urlParams, pushed, searchBar, pager>>

\* router.push(url) when the handler came to it
Push(url) == pushed' = IF url # None THEN url ELSE pushed

\* a radio button of the category section is chosen
ChooseCategory ==
    /\ sidebar.mounted
    /\ \E value \in {<<>>, <<"x">>} :
          Push(updateFilter(urlParams, "category", value))
    /\ sidebar' = Handled(sidebar, "category", FALSE)
    /\ UNCHANGED <<besideUi, uiCall, urlParams, searchBar, pager>>

\* the price form is submitted
SubmitPrice ==
    /\ sidebar.mounted
    /\ sidebar.localMinPrice # <<>> \/ sidebar.localMaxPrice # <<>>
    /\ Push(updatePriceRange(urlParams, sidebar.localMinPrice, sidebar.localMaxPrice))
    /\ sidebar' = Handled(sidebar, "submit", FALSE)
    /\ UNCHANGED <<besideUi, uiCall, urlParams, searchBar, pager>>

\* the Clear button of the price section
ClearPrice ==
    /\ sidebar.mounted
    /\ Push(clearPriceRange(urlParams))
    /\ sidebar' = Handled([sidebar EXCEPT !.localMinPrice = <<>>, !.localMaxPrice = <<>>],
                          "clear", FALSE)
    /\ UNCHANGED <<besideUi, uiCall, urlParams, searchBar, pager>>

\* the router navigates to the URL pushed; the page renders the sidebar with
\* the filters of that URL, and the effect on currentFilters.priceRange sets
\* the price fields from them
NavigateSidebar ==
    /\ sidebar.mounted
    /\ pushed # None
    /\ urlParams' = Landed(Get(pushed))
    /\ pushed' = None
    /\ sidebar' = Handled(
                     [sidebar EXCEPT
                        !.localMinPrice = LocalPrice(FiltersOf(urlParams').priceRange.min),
                        !.localMaxPrice = LocalPrice(FiltersOf(urlParams').priceRange.max)],
                     "navigate", FALSE)
    /\ UNCHANGED <<besideUi, uiCall, searchBar, pager>>

NextSidebar ==
    \/ SetIsOpen
    \/ KeyDown
    \/ ClickToClose
    \/ EditPrice
    \/ ChooseCategory
    \/ SubmitPrice
    \/ ClearPrice
    \/ NavigateSidebar

SpecSidebar == InitSidebar /\ [][NextSidebar]_vars

----------------------------------------------------------------------------
(* Claims about FilterSidebar (specification SpecSidebar) *)

\* C26: in mobile mode FilterSidebar renders an element with role dialog
\* exactly when isOpen is true, and Escape calls onClose only while the
\* sidebar is mobile and open.
C26_DialogExactlyWhenOpen ==
    sidebar.mounted =>
        /\ sidebar.isMobile => ("dialog" \in sidebar.dom <=> sidebar.isOpen)
        /\ sidebar.onCloseCalledBy = "Escape" => sidebar.isMobile /\ sidebar.isOpen

----------------------------------------------------------------------------
(* The Pagination component: it is given the page of the current URL and   *)
(* the number of pages, and its buttons hand goToPage a page.              *)

\* catalog page: const currentPage = validatedParams.page || 1
CurrentPageOf(query) ==
    LET page == processSearchParams("record", query).page
    IN  IF IsSome(page) /\ Get(page) # 0 THEN Get(page) \div 10 ELSE 1

\* Math.max(1, Math.min(currentPage || 1, totalPages || 1))
validatedCurrentPage(currentPage, tp) ==
    MathMax(1, MathMin(IF currentPage # 0 THEN currentPage ELSE 1,
                       IF tp # 0 THEN tp ELSE 1))

\* Math.max(1, totalPages || 1)
validatedTotalPages(tp) == MathMax(1, IF tp # 0 THEN tp ELSE 1)

\* goToPage without the test for the page the component is on
goToPage_Always(searchParams, currentPage, tp, page) ==
    LET validPage == validatePageNumber(page, validatedTotalPages(tp))
    IN  Some(CatalogUrl([searchParams EXCEPT
                            !.page = IF validPage > 1
                                     THEN Some(NumberToString(Whole(validPage)))
                                     ELSE None]))

\* Pagination.goToPage(page): the URL pushed, <<>> when it returns before
goToPage(searchParams, currentPage, tp, page) ==
    LET validPage == validatePageNumber(page, validatedTotalPages(tp))
    IN  IF validPage = validatedCurrentPage(currentPage, tp) THEN None
        ELSE Some(CatalogUrl([searchParams EXCEPT
                                 !.page = IF validPage > 1
                                          THEN Some(NumberToString(Whole(validPage)))
                                          ELSE None]))

\* the component renders its buttons (it returns null otherwise)
PagerRendered(currentPage, tp) ==
    ~(validatedTotalPages(tp) <= 1
      \/ validatedCurrentPage(currentPage, tp) > validatedTotalPages(tp))

\* calculatePagination(validatedTotalPages * 20, validatedCurrentPage, 20)
paginationMeta(currentPage, tp) ==
    calculatePagination(validatedTotalPages(tp) * 20,
                        validatedCurrentPage(currentPage, tp), 20)

\* the pages of the page-number buttons
visiblePages(currentPage, tp) ==
    LET list == generatePageNumbers(validatedCurrentPage(currentPage, tp),
                                    validatedTotalPages(tp), 7)
    IN  { Get(list[n]) : n \in { m \in 1..Len(list) : list[m] # Ellipsis } }

MaxPagerPages == 8

MaxPagerTimers == 2

\* the URLs the component is mounted on: any page, another parameter or none
PagerUrls ==
    { [NoParams EXCEPT !.q = q, !.page = pg] :
        q \in {None, Some(<<"a", " ", "b">>)},
        pg \in {None, Some(<<"1">>), Some(<<"2">>), Some(<<"3">>), Some(<<"2", "0">>)} }

InitPager ==
    /\ FiltersIdle
    /\ SanitizeIdle
    /\ PaginationIdle
    /\ ParamsIdle
    /\ SearchIdle
    /\ uiCall = None
    /\ pushed = None
    /\ sidebar = Unmounted
    /\ searchBar = Unmounted
    /\ urlParams \in PagerUrls
    /\ \E tp \in 0..MaxPagerPages :
          pager = [mounted |-> TRUE, currentPage |-> CurrentPageOf(urlParams),
                   totalPages |-> tp, isNavigating |-> FALSE, timers |-> 0,
                   last |-> None]

\* a button calls goToPage(page): the call is noted, and when it comes to
\* router.push the component is navigating and a timer of 100 ms is set
GoToPage(page) ==
    LET url == goToPage(urlParams, pager.currentPage, pager.totalPages, page)
        call == Some([page |-> page, from |-> urlParams,
                      current |-> validatedCurrentPage(pager.currentPage,
                                                       pager.totalPages),
                      url |-> url])
    IN  /\ Push(url)
        /\ url # None => pager.timers < MaxPagerTimers
        /\ pager' = IF url = None THEN [pager EXCEPT !.last = call]
                    ELSE [pager EXCEPT !.last = call, !.isNavigating = TRUE,
                                       !.timers = @ + 1]
        /\ UNCHANGED <<besideUi, uiCall, urlParams, sidebar, searchBar>>

PreviousButton ==
    /\ pager.mounted
    /\ PagerRendered(pager.currentPage, pager.totalPages)
    /\ ~(paginationMeta(pager.currentPage, pager.totalPages).isFirstPage
         \/ pager.isNavigating)
    /\ GoToPage(validatedCurrentPage(pager.currentPage, pager.totalPages) - 1)

NextButton ==
    /\ pager.mounted
    /\ PagerRendered(pager.currentPage, pager.totalPages)
    /\ ~(paginationMeta(pager.currentPage, pager.totalPages).isLastPage
         \/ pager.isNavigating)
    /\ GoToPage(validatedCurrentPage(pager.currentPage, pager.totalPages) + 1)

PageButton ==
    /\ pager.mounted
    /\ PagerRendered(pager.currentPage, pager.totalPages)
    /\ ~pager.isNavigating
    /\ \E pageNumber \in visiblePages(pager.currentPage, pager.totalPages) :
          GoToPage(pageNumber)

\* setTimeout(() => setIsNavigating(false), 100)
NavigatingTimer ==
    /\ pager.mounted
    /\ pager.timers > 0
    /\ pager' = [pager EXCEPT !.isNavigating = FALSE, !.timers = @ - 1]
    /\ UNCHANGED <<besideUi, uiCall, urlParams, pushed, sidebar, searchBar>>

\* the router navigates to the URL pushed and the page passes the page of
\* that URL; the effect on validatedCurrentPage ends the navigating state
\* when the page changed
NavigatePager ==
    /\ pager.mounted
    /\ pushed # None
    /\ urlParams' = Landed(Get(pushed))
    /\ pushed' = None
    /\ \E currentPage \in {CurrentPageOf(urlParams')} :
          pager' = IF validatedCurrentPage(currentPage, pager.totalPages)
                      # validatedCurrentPage(pager.currentPage, pager.totalPages)
                   THEN [pager EXCEPT !.currentPage = currentPage,
                                      !.isNavigating = FALSE]
                   ELSE [pager EXCEPT !.currentPage = currentPage]
    /\ UNCHANGED <<besideUi, uiCall, sidebar, searchBar>>

NextPager ==
    \/ PreviousButton
    \/ NextButton
    \/ PageButton
    \/ NavigatingTimer
    \/ NavigatePager

SpecPager == InitPager /\ [][NextPager]_vars

----------------------------------------------------------------------------
(* Claims about the Pagination component (specification SpecPager) *)

\* C30: with totalPages >= 2, whatever buttons were activated before, a
\* goToPage call navigates exactly when its page differs from the current
\* page; the page it navigates to lies in 1 .. totalPages, page 1 is written
\* by removing the page parameter and any other page n as page=n, and every
\* other query parameter keeps its value.
C30_NavigatesWithinPages ==
    pager.mounted /\ pager.totalPages >= 2 /\ pager.last # None =>
        LET c == Get(pager.last)
        IN  /\ c.url = None <=> c.page = c.current
            /\ c.url # None =>
                  /\ c.page \in 1..pager.totalPages
                  /\ Get(c.url).pathname = "/catalog"
                  /\ Landed(Get(c.url)).page
                        = (IF c.page = 1 THEN None ELSE Some(IntDigits(c.page)))
                  /\ \A k \in Keys \ {"page"} : Landed(Get(c.url))[k] = c.from[k]

\* after some navigations, Previous on page 2 of a search goes back to page
\* 1: the page parameter is removed and q stays
C30_Witness ==
    /\ pager.mounted
    /\ pager.totalPages >= 2
    /\ pager.last # None
    /\ Get(pager.last).page = 1
    /\ Get(pager.last).current = 2
    /\ Get(pager.last).from.page = Some(<<"2">>)
    /\ Get(pager.last).from.q = Some(<<"a", " ", "b">>)
    /\ Get(pager.last).url # None
    /\ Landed(Get(Get(pager.last).url)) = [NoParams EXCEPT !.q = Some(<<"a", " ", "b">>)]
    /\ urlParams.page = Some(<<"2">>)
    /\ pushed # None
    /\ pager.timers = 2

----------------------------------------------------------------------------
(* The SearchBar component: the text of the box, the isSearching flag, the *)
(* debounce timer of 500 ms and the timers that end isSearching.  The      *)
(* effect that sets the debounce timer runs again after every render in    *)
(* which searchQuery, the query prop or handleSearch (that is searchParams *)
(* or isSearching) changed, so a pending debounce timer always calls the   *)
(* handleSearch of the latest render.  What the component and the page     *)
(* compute from a URL and a text is tabulated once over the URLs and texts *)
(* of this machine, so that the enabling conditions of the fairness        *)
(* formulas are cheap to evaluate.                                         *)

\* catalog page: <SearchBar query={currentFilters.query} />
QueryPropOf(query) == FiltersOf(query).query

MaxEdits == 2

\* what the user leaves in the box
SearchTexts == { <<>>, <<"a">>, <<" ", "a">>, Rep("a", MaxQueryLen + 1) }

\* the URLs the search bar is mounted on
SearchBarUrls ==
    { [NoParams EXCEPT !.q = q, !.category = c, !.page = pg] :
        q \in {None, Some(<<"a">>)},
        c \in {None, Some(<<"x">>)},
        pg \in {None, Some(<<"2">>)} }

\* the URLs it can come to: q as a search leaves it, page kept or removed
SearchBarReach ==
    { [u EXCEPT !.q = q, !.page = pg] :
        u \in SearchBarUrls,
        q \in {None, Some(<<"a">>)} \cup { UiText(text, MaxQueryLen) : text \in SearchTexts },
        pg \in {None, Some(<<"2">>)} }

\* handleSearch, QueryPropOf and Landed over these
handleSearchTable ==
    [sp \in SearchBarReach |->
        [isSearching \in BOOLEAN |->
            [newQuery \in SearchTexts |-> handleSearch(sp, isSearching, newQuery)]]]

queryPropTable == [sp \in SearchBarReach |-> QueryPropOf(sp)]

landedTable ==
    [url \in { handleSearch(sp, FALSE, newQuery) :
                  sp \in SearchBarReach, newQuery \in SearchTexts } |-> Landed(Get(url))]

\* the debounce effect: its cleanup clears the timer, and a new one is set
\* unless searchQuery === query
DebounceEffect(sb, query) == [sb EXCEPT !.debounce = (sb.searchQuery # queryPropTable[query])]

\* the component rendered after its state went from sb0 to sb1 and the URL
\* from query0 to query1: the effect runs when one of its dependencies changed
AfterRender(sb0, query0, sb1, query1) ==
    IF \/ sb1.searchQuery # sb0.searchQuery
       \/ sb1.isSearching # sb0.isSearching
       \/ query1 # query0
    THEN DebounceEffect(sb1, query1) ELSE sb1

\* handleSearch came to router.push: setIsSearching(true), and the timer of
\* the finally block is set
Searching(sb) == [sb EXCEPT !.isSearching = TRUE, !.timers = @ + 1]

InitSearchBar ==
    /\ FiltersIdle
    /\ SanitizeIdle
    /\ PaginationIdle
    /\ ParamsIdle
    /\ SearchIdle
    /\ uiCall = None
    /\ pushed = None
    /\ sidebar = Unmounted
    /\ pager = Unmounted
    /\ urlParams \in SearchBarUrls
    /\ searchBar = [mounted |-> TRUE, searchQuery |-> queryPropTable[urlParams],
                    isSearching |-> FALSE, debounce |-> FALSE, timers |-> 0,
                    edits |-> 0]

\* the user changes the text of the box
EditBox ==
    /\ searchBar.mounted
    /\ searchBar.edits < MaxEdits
    /\ \E text \in SearchTexts :
          /\ text # searchBar.searchQuery
          /\ searchBar' = AfterRender(searchBar, urlParams,
                                      [searchBar EXCEPT !.searchQuery = text,
                                                        !.edits = @ + 1],
                                      urlParams)
    /\ UNCHANGED <<besideUi, uiCall, urlParams, pushed, sidebar, pager>>

\* the debounce timer fires: handleSearch(searchQuery)
DebounceTimer ==
    /\ searchBar.mounted
    /\ searchBar.debounce
    /\ LET url == handleSearchTable[urlParams][searchBar.isSearching][searchBar.searchQuery]
           fired == [searchBar EXCEPT !.debounce = FALSE]
       IN  /\ Push(url)
           /\ searchBar' = IF url = None THEN fired
                           ELSE AfterRender(fired, urlParams, Searching(fired), urlParams)
    /\ UNCHANGED <<besideUi, uiCall, urlParams, sidebar, pager>>

\* the user submits the form: handleSearch(searchQuery)
SubmitBox ==
    /\ searchBar.mounted
    /\ searchBar.edits < MaxEdits
    /\ LET url == handleSearchTable[urlParams][searchBar.isSearching][searchBar.searchQuery]
           counted == [searchBar EXCEPT !.edits = @ + 1]
       IN  /\ Push(url)
           /\ searchBar' = IF url = None THEN counted
                           ELSE AfterRender(counted, urlParams, Searching(counted),
                                            urlParams)
    /\ UNCHANGED <<besideUi, uiCall, urlParams, sidebar, pager>>

\* the user clicks the clear button, shown while there is text and no search
\* is in flight: setSearchQuery(''), handleSearch('')
ClearBox ==
    /\ searchBar.mounted
    /\ searchBar.edits < MaxEdits
    /\ searchBar.searchQuery # <<>> /\ ~searchBar.isSearching
    /\ Push(handleSearchTable[urlParams][searchBar.isSearching][<<>>])
    /\ searchBar' = AfterRender(searchBar, urlParams,
                                Searching([searchBar EXCEPT !.searchQuery = <<>>,
                                                            !.edits = @ + 1]),
                                urlParams)
    /\ UNCHANGED <<besideUi, uiCall, urlParams, sidebar, pager>>

\* setTimeout(() => setIsSearching(false), 500)
SearchingTimer ==
    /\ searchBar.mounted
    /\ searchBar.timers > 0
    /\ searchBar' = AfterRender(searchBar, urlParams,
                                [searchBar EXCEPT !.isSearching = FALSE,
                                                  !.timers = @ - 1],
                                urlParams)
    /\ UNCHANGED <<besideUi, uiCall, urlParams, pushed, sidebar, pager>>

\* the router navigates to the URL pushed; the page renders the search bar
\* with the query of that URL
NavigateSearchBar ==
    /\ searchBar.mounted
    /\ pushed # None
    /\ urlParams' = landedTable[pushed]
    /\ pushed' = None
    /\ searchBar' = AfterRender(searchBar, urlParams, searchBar, urlParams')
    /\ UNCHANGED <<besideUi, uiCall, sidebar, pager>>

NextSearchBar ==
    \/ EditBox
    \/ DebounceTimer
    \/ SubmitBox
    \/ ClearBox
    \/ SearchingTimer
    \/ NavigateSearchBar

SpecSearchBar == InitSearchBar /\ [][NextSearchBar]_vars

\* timers that are set fire, and the router carries out a navigation asked
\* of it; the user is free to do nothing
SpecSearchBarLive ==
    /\ SpecSearchBar
    /\ WF_vars(DebounceTimer)
    /\ WF_vars(SearchingTimer)
    /\ WF_vars(NavigateSearchBar)

----------------------------------------------------------------------------
(* Claims about SearchBar (specification SpecSearchBarLive) *)

\* a step in which handleSearch passes its guard and calls router.push
RouterPush == ~searchBar.isSearching /\ searchBar'.isSearching

\* C29: whatever text the user leaves in the box, once the user has stopped
\* the search bar issues only finitely many navigations: from some point on
\* no step calls router.push.
C29_Quiesces == <>[][~RouterPush]_vars

====
